---- MODULE Spec2Model ----
(***************************************************************************)
(* A model of the array-in / array-out functions of the X-ray analysis     *)
(* toolkit: nsls2.spectroscopy.integrate_ROI, skxray.io.output             *)
(* (save_output, save_gsas, _valid_inputs), nsls2.recip.process_to_q,      *)
(* skxray.dpc.image_reduction and                                          *)
(* nsls2.fitting.model.xrf_model.update_parameter_dict.                    *)
(*                                                                         *)
(* Every function is a synchronous call.  A behaviour is one call: pc goes *)
(* from "ready" to "done", `call` records the function and its arguments,  *)
(* `ret` what it raised or returned.  The state a call can change besides  *)
(* its return value is modelled explicitly: the file system (fs), the      *)
(* caller's image array (im) and the caller's parameter dictionaries       *)
(* (xrf_parameter, heap).  skxray.core.xsvs.xsvs is the one function that  *)
(* is followed image by image: `loop` holds the local variables of its     *)
(* loop over the images of an image set.  param_hints is the hint          *)
(* dictionary of the lmfit model the parameter-hint helpers are handed.    *)
(*                                                                         *)
(* Python sequences are TLA+ sequences (1-based); Python indices and slice *)
(* bounds are kept 0-based as in the source and shifted where a sequence   *)
(* is accessed.                                                            *)
(***************************************************************************)
EXTENDS Integers, Sequences, FiniteSets, TLC

VARIABLES pc, call, ret, fs, im, xrf_parameter, heap, loop, param_hints

vars == <<pc, call, ret, fs, im, xrf_parameter, heap, loop, param_hints>>

\* Python's None.
None == "None"

\* The state before any call: nothing called, nothing returned.
NoCall == [fn |-> "none"]
NoRet == [exc |-> "none"]

\* A call that raised: the exception and no value.
Raise(e) == [exc |-> e]

\* Python's None where an array, list or tuple is expected (no call passes an
\* empty one, so <<>> is free to stand for it).
NoneSeq == <<>>

\* No file, no image, no dictionaries: the value of the state a
\* specification does not use.
NoFiles == [p \in {} |-> <<>>]
NoImage == <<>>
NoDict == [k \in {} |-> 0]
\* No loop running: the value of `loop` outside xsvs.
NoLoop == [n |-> 0]

Min(a, b) == IF a < b THEN a ELSE b
Max(a, b) == IF a > b THEN a ELSE b

\* All sequences over S with a length in Lens.
SeqsOf(S, Lens) == UNION {[1..n -> S] : n \in Lens}

RECURSIVE SumSeq(_)
SumSeq(s) == IF Len(s) = 0 THEN 0 ELSE Head(s) + SumSeq(Tail(s))

-----------------------------------------------------------------------------
(***************************************************************************)
(* nsls2/spectroscopy.py: integrate_ROI                                    *)
(***************************************************************************)

\* Largest x value and largest integration bound drawn.
MaxX == 4
\* Largest number of counts in a bin.
MaxCount == 2

\* s[::-1]
Reverse(s) == [i \in 1..Len(s) |-> s[Len(s) + 1 - i]]

\* np.all(np.diff(x) > 0)
StrictlyIncreasing(x) == \A i \in 1..(Len(x) - 1) : x[i + 1] - x[i] > 0

\* spectroscopy.py 193-194: reverse x unless it increases strictly (counts is
\* not reversed with it).
Oriented(x) == IF ~StrictlyIncreasing(x) THEN Reverse(x) ELSE x

\* spectroscopy.py 197-198: every difference divided by the first one is 1.
\* A first difference of 0 gives nan or inf, never 1.
EquallySpaced(x) ==
    /\ x[2] - x[1] # 0
    /\ \A i \in 1..(Len(x) - 1) : x[i + 1] - x[i] = x[2] - x[1]

\* ndarray.searchsorted(v) on a sorted array (side='left'): the 0-based index
\* of the first element >= v, which is the number of elements < v.
SearchSorted(x, v) == Cardinality({i \in 1..Len(x) : x[i] < v})

\* s[a:b] for 0 <= a, 0 <= b (Python clips b to the length).
Slice(s, a, b) ==
    LET hi == Min(b, Len(s))
    IN  IF hi <= a THEN <<>> ELSE [i \in 1..(hi - a) |-> s[a + i]]

\* scipy.integrate._basic_simps(y, start, stop, x, dx, axis) for equally
\* spaced x with spacing h, times 6: the sum over the 0-based indices
\* i = start, start+2, ... < stop of 2h/6 * (y[i] + 4 y[i+1] + y[i+2]).
\* A negative stop counts from the end as in a Python slice; the three
\* strided slices broadcast, so a term exists only where all three samples do.
BasicSimps6(y, start, stop, h) ==
    LET n == Len(y)
        stopN == IF stop < 0 THEN Max(stop + n, 0) ELSE Min(stop, n)
        idx == {i \in 0..(n - 1) : /\ i >= start
                                   /\ i < stopN
                                   /\ (i - start) % 2 = 0
                                   /\ i + 2 <= n - 1}
        term(i) == 2 * h * (y[i + 1] + 4 * y[i + 2] + y[i + 3])
        RECURSIVE Sum(_)
        Sum(S) == IF S = {} THEN 0
                  ELSE LET i == CHOOSE j \in S : TRUE
                       IN  term(i) + Sum(S \ {i})
    IN  Sum(idx)

\* scipy.integrate.simps(y, x, even='avg') for equally spaced x with spacing
\* h, times 12 (so that the result stays an integer).  An odd number of
\* samples is Simpson's rule; an even number averages Simpson's rule on the
\* first N-1 samples plus a trapezoid on the last interval with a trapezoid on
\* the first interval plus Simpson's rule on the last N-1 samples.
Simps12(y, h) ==
    LET n == Len(y)
    IN  IF n % 2 = 0
        THEN 3 * h * (y[n] + y[n - 1]) + 3 * h * (y[2] + y[1])
             + BasicSimps6(y, 0, n - 3, h) + BasicSimps6(y, 1, n - 2, h)
        ELSE 2 * BasicSimps6(y, 0, n - 2, h)

\* searchsorted(x_min, side='right'): the number of elements <= lo.
BottomIndxRight(x, lo) == Cardinality({i \in 1..Len(x) : x[i] <= lo})
\* spectroscopy.py 223: bottom index of a region.
BottomIndx(x, lo) == SearchSorted(x, lo)
\* spectroscopy.py 227: top index of a region.
TopIndx(x, hi) == SearchSorted(x, hi) + 1

\* The loop of 232-233 with accum = in place of accum +=.
AccumLastRegion12(x, counts, x_min, x_max) ==
    Simps12(Slice(counts, BottomIndx(x, x_min[Len(x_min)]),
                  TopIndx(x, x_max[Len(x_min)])),
            x[2] - x[1])
\* spectroscopy.py 229-235: accum, times 12.
Accum12(x, counts, x_min, x_max) ==
    SumSeq([r \in 1..Len(x_min) |->
              Simps12(Slice(counts, BottomIndx(x, x_min[r]), TopIndx(x, x_max[r])),
                      x[2] - x[1])])

\* spectroscopy.py 206-207: the bounds come in pairs.
SameLengths(x_min, x_max) == Len(x_min) = Len(x_max)

\* The comparison of line 209 with > in place of >=.
BoundsInvertedStrict(x_min, x_max) ==
    \E r \in 1..Len(x_min) : x_min[r] > x_max[r]
\* spectroscopy.py 209: some lower bound is not below its upper bound.
\* (numpy compares elementwise; called only with equal lengths.)
BoundsInverted(x_min, x_max) ==
    \E r \in 1..Len(x_min) : x_min[r] >= x_max[r]

\* spectroscopy.py 213: some lower bound at or below the first x.
LowerOutOfRange(x, x_min) == \E r \in 1..Len(x_min) : x_min[r] <= x[1]
\* spectroscopy.py 217: some upper bound at or above the last x.
UpperOutOfRange(x, x_max) == \E r \in 1..Len(x_max) : x_max[r] >= x[Len(x)]

\* spectroscopy.py 152-235.  x_min and x_max are given after
\* np.atleast_1d(...).ravel(): a scalar is a sequence of length 1.
\* The value returned is 12 * accum.
integrate_ROI(x_value_array, counts, x_min, x_max) ==
    LET x == Oriented(x_value_array)
    IN  IF ~EquallySpaced(x)
        THEN Raise("ValueError")
        ELSE IF ~SameLengths(x_min, x_max)
        THEN Raise("ValueError")
        ELSE IF BoundsInverted(x_min, x_max)
        THEN Raise("ValueError")
        ELSE IF LowerOutOfRange(x, x_min)
        THEN Raise("ValueError")
        ELSE IF UpperOutOfRange(x, x_max)
        THEN Raise("ValueError")
        ELSE [exc |-> "none", value |-> Accum12(x, counts, x_min, x_max)]

\* Spectra: at least two bins (the spacing x[1] - x[0] is read), every
\* order of values, with counts of the same length.
XArrays == SeqsOf(0..MaxX, {2, 3})
CountsFor(x) == {[i \in 1..Len(x) |-> 1], [i \in 1..Len(x) |-> i % (MaxCount + 1)]}
\* Integration bounds: a scalar or a list of two, lengths chosen independently.
BoundLists == SeqsOf(0..MaxX, {1, 2})

InitROI ==
    /\ pc = "ready"
    /\ call = NoCall
    /\ ret = NoRet
    /\ loop = NoLoop
    /\ param_hints = NoDict
    /\ fs = NoFiles
    /\ im = NoImage
    /\ xrf_parameter = NoDict
    /\ heap = NoDict

CallIntegrateROI ==
    /\ pc = "ready"
    /\ \E x \in XArrays, x_min \in BoundLists, x_max \in BoundLists :
         \E counts \in CountsFor(x) :
            /\ call' = [fn |-> "integrate_ROI", x_value_array |-> x, counts |-> counts,
                        x_min |-> x_min, x_max |-> x_max]
            /\ ret' = integrate_ROI(x, counts, x_min, x_max)
    /\ pc' = "done"
    /\ UNCHANGED <<fs, im, xrf_parameter, heap, loop, param_hints>>

NextROI == CallIntegrateROI

SpecROI == InitROI /\ [][NextROI]_vars

\* The x values as the documentation wants them: increasing from left to
\* right, a decreasing array being turned around.
C1_Increasing(x) ==
    IF \A i \in 1..(Len(x) - 1) : x[i] < x[i + 1]
    THEN x ELSE [i \in 1..Len(x) |-> x[Len(x) + 1 - i]]
\* One common, non-zero difference between neighbours.
C1_EquallySpaced(x) ==
    \E d \in ((0 - MaxX - 1)..(MaxX + 1)) \ {0} :
        \A i \in 1..(Len(x) - 1) : x[i + 1] - x[i] = d
\* A documented precondition of integrate_ROI is violated.
C1_Violated ==
    \/ Len(call.x_min) # Len(call.x_max)
    \/ /\ Len(call.x_min) = Len(call.x_max)
       /\ \E r \in 1..Len(call.x_min) : call.x_min[r] >= call.x_max[r]
    \/ ~C1_EquallySpaced(C1_Increasing(call.x_value_array))
\* Every bound lies strictly inside the spectrum range.
C1_Inside ==
    LET x == C1_Increasing(call.x_value_array)
    IN  /\ \A r \in 1..Len(call.x_min) : call.x_min[r] > x[1]
        /\ \A r \in 1..Len(call.x_max) : call.x_max[r] < x[Len(x)]

\* C1: integrate_ROI raises ValueError and returns no value whenever x_min and
\* x_max differ in length, some region has x_min >= x_max, or the oriented
\* x_value_array is not equally spaced; every input that meets these
\* preconditions with all bounds strictly inside the spectrum range returns
\* a number.
C1_RaisesOnViolatedPrecondition ==
    (pc = "done" /\ call.fn = "integrate_ROI") =>
        /\ C1_Violated => ret = Raise("ValueError")
        /\ (~C1_Violated /\ C1_Inside) =>
               (ret.exc = "none" /\ "value" \in DOMAIN ret /\ ret.value \in Int)

\* C1 witness: a decreasing, equally spaced spectrum and a pair of bounds
\* inside its range with x_min = x_max: the call has raised ValueError.
C1_Witness ==
    /\ pc = "done" /\ call.fn = "integrate_ROI"
    /\ ~StrictlyIncreasing(call.x_value_array)
    /\ C1_EquallySpaced(C1_Increasing(call.x_value_array))
    /\ Len(call.x_min) = 1 /\ Len(call.x_max) = 1
    /\ call.x_min[1] = call.x_max[1]
    /\ C1_Inside
    /\ ret.exc = "ValueError"

\* A call with valid inputs has returned a number.
ROI_Returned ==
    /\ pc = "done" /\ call.fn = "integrate_ROI"
    /\ ~C1_Violated /\ C1_Inside /\ Len(call.x_min) = 2
    /\ ret.exc = "none" /\ ret.value > 0

ROIDone == pc = "done" /\ call.fn = "integrate_ROI"

\* C11 (as claimed): integrate_ROI accepts bounds that coincide with the ends
\* of the spectrum: with valid inputs, lower bounds >= the lowest x value and
\* upper bounds <= the highest x value do not raise.
C11_EndsAccepted ==
    (/\ ROIDone /\ ~C1_Violated
     /\ LET x == C1_Increasing(call.x_value_array)
        IN  /\ \A r \in 1..Len(call.x_min) : call.x_min[r] >= x[1]
            /\ \A r \in 1..Len(call.x_max) : call.x_max[r] <= x[Len(x)])
    => ret.exc = "none"

\* The smallest 0-based index i with x[i] >= v exists.
C12_HasFirst(x, v) == \E i \in 0..(Len(x) - 1) : x[i + 1] >= v
\* The smallest 0-based index i with x[i] >= v.
C12_First(x, v) ==
    CHOOSE i \in 0..(Len(x) - 1) :
        x[i + 1] >= v /\ \A j \in 0..(i - 1) : x[j + 1] < v
\* The samples with 0-based indices i..k, both inclusive.
C12_Samples(counts, i, k) == [j \in 1..(k - i + 1) |-> counts[i + j]]

\* C12: for each region integrate_ROI integrates exactly the samples from the
\* smallest index i with x[i] >= x_min to the smallest index k with
\* x[k] >= x_max, both inclusive, and these indices lie inside the arrays.
C12_IntegratedSamples ==
    (ROIDone /\ ret.exc = "none") =>
        LET x == C1_Increasing(call.x_value_array)
            n == Len(call.x_min)
        IN  /\ \A r \in 1..n : /\ C12_HasFirst(x, call.x_min[r])
                                /\ C12_HasFirst(x, call.x_max[r])
                                /\ C12_First(x, call.x_min[r])
                                      <= C12_First(x, call.x_max[r])
                                /\ C12_First(x, call.x_max[r]) <= Len(call.counts) - 1
            /\ ret.value =
                  SumSeq([r \in 1..n |->
                            Simps12(C12_Samples(call.counts,
                                                C12_First(x, call.x_min[r]),
                                                C12_First(x, call.x_max[r])),
                                    x[2] - x[1])])

\* C12 witness: a region whose lower bound is a sample position (x_min = 2 on
\* the spectrum 0, 2, 4) was integrated over two samples.
C12_Witness ==
    /\ ROIDone /\ ret.exc = "none"
    /\ call.x_value_array = <<0, 2, 4>> /\ call.counts = <<1, 2, 0>>
    /\ call.x_min = <<2>> /\ call.x_max = <<3>>
    /\ ret.value = 12 * 2

\* The value of integrating region r of the call alone.
C13_Alone(r) ==
    integrate_ROI(call.x_value_array, call.counts,
                  <<call.x_min[r]>>, <<call.x_max[r]>>)

\* C13: with lists of regions integrate_ROI returns the sum of the values
\* obtained by integrating each region alone, in any order of the regions and
\* also when regions overlap.
C13_SumOfRegions ==
    (ROIDone /\ ret.exc = "none" /\ Len(call.x_min) = 2) =>
        /\ C13_Alone(1).exc = "none" /\ C13_Alone(2).exc = "none"
        /\ ret.value = C13_Alone(1).value + C13_Alone(2).value
        /\ ret = integrate_ROI(call.x_value_array, call.counts,
                               Reverse(call.x_min), Reverse(call.x_max))

\* C13 witness: two overlapping regions, [1, 3] and [2, 3], each with a
\* non-zero integral, were integrated in one call.
C13_Witness ==
    /\ ROIDone /\ ret.exc = "none"
    /\ call.x_value_array = <<0, 2, 4>>
    /\ call.x_min = <<1, 2>> /\ call.x_max = <<3, 3>>
    /\ C13_Alone(1).value > 0 /\ C13_Alone(2).value > 0

-----------------------------------------------------------------------------
(***************************************************************************)
(* skxray/io/output.py: save_output, save_gsas, _valid_inputs              *)
(*                                                                         *)
(* A file is the sequence of tokens written to it: a newline, a piece of   *)
(* text, or a formatted data row.  fs maps a path <<dir, name, ext>> to    *)
(* the file's tokens; a path outside DOMAIN fs has no file.                *)
(***************************************************************************)

\* Most data rows of a diffraction pattern.
MaxRows == 2
\* Largest data value (two theta, intensity or error).
MaxVal == 12

NL == [k |-> "nl"]
CRLF == [k |-> "crlf"]
Text(s) == [k |-> "text", s |-> s]

\* The decimal exponent of a number below 1000 in '%e' notation.
Exponent(n) == IF n < 10 THEN 0 ELSE IF n < 100 THEN 1 ELSE 2
Pow10(e) == IF e = 0 THEN 1 ELSE IF e = 1 THEN 10 ELSE 100

\* '%.18e' % n (np.savetxt's default fmt): the leading digit, the digits
\* after the point that are not trailing zeros (as a number of `exp` digits)
\* and the exponent.
FormatE(n) ==
    [lead |-> n \div Pow10(Exponent(n)), frac |-> n % Pow10(Exponent(n)),
     exp |-> Exponent(n)]

\* np.c_[a, b] / np.c_[a, b, c]: the columns side by side; ValueError when
\* their lengths differ.
ColumnsMatch(cols) == \A i \in 1..Len(cols) : Len(cols[i]) = Len(cols[1])

\* np.savetxt(f, X, newline='\n'): one formatted row and a newline per row.
SaveTxt(cols) ==
    LET RECURSIVE Rows(_)
        Rows(r) == IF r > Len(cols[1]) THEN <<>>
                   ELSE << [k |-> "row",
                            cols |-> [c \in 1..Len(cols) |-> FormatE(cols[c][r])]],
                           NL >> \o Rows(r + 1)
    IN  Rows(1)

\* output.py 93-100: the description of the columns.
Des(q_or_2theta) ==
    IF q_or_2theta = "Q"
    THEN Text("First column represents Q values (Angstroms) ...")
    ELSE Text("First column represents two theta values (degrees) ...")

\* output.py 106-115: what save_output writes before the data.
Header(tth, output_name, q_or_2theta) ==
    << Text(output_name) >>
    \o << NL, Text(" This file contains integrated powder x-ray diffraction intensities."),
          NL, NL >>
    \o << [k |-> "text", s |-> "Number of data points in the file {0} ", n |-> Len(tth)],
          NL >>
    \o << Des(q_or_2theta) >>
    \o << Text("#####################################################"), NL, NL >>

\* os.path.exists(dir_path)
ExistingDirs == {"data"}

\* output.py 222-266.  len(tth) != len(intensity) is all that is compared:
\* the length of err is not looked at.
_valid_inputs(tth, intensity, output_name, ext, err, dir_path) ==
    IF Len(tth) # Len(intensity)
    THEN Raise("ValueError")
    ELSE IF ext = ".xye" /\ err = NoneSeq
    THEN Raise("ValueError")
    ELSE IF dir_path = None
    THEN [exc |-> "none", file_path |-> <<None, output_name, ext>>]
    ELSE IF dir_path \in ExistingDirs
    THEN [exc |-> "none", file_path |-> <<dir_path, output_name, ext>>]
    ELSE Raise("ValueError")

\* open(file_path, 'wb') followed by the writes and the close of the with
\* block: the file is created or truncated and holds what was written.
WriteFile(files, file_path, tokens) ==
    [p \in DOMAIN files \cup {file_path} |->
        IF p = file_path THEN tokens ELSE files[p]]

\* The check of line 88 accepting any string.
QOr2thetaUnchecked(q_or_2theta) == TRUE
\* output.py 88: q_or_2theta in set(['Q', '2theta'])
QOr2thetaValid(q_or_2theta) == q_or_2theta \in {"Q", "2theta"}

\* output.py 48-120.  The result is the exception raised and the file system
\* left behind.  np.c_ raises inside the with block, after the header was
\* written: the file is closed with the header in it.
save_output(files, tth, intensity, output_name, q_or_2theta, ext, err, dir_path) ==
    LET v == _valid_inputs(tth, intensity, output_name, ext, err, dir_path)
        head == Header(tth, output_name, q_or_2theta)
        cols == IF err = NoneSeq THEN <<tth, intensity>> ELSE <<tth, intensity, err>>
    IN  IF ~QOr2thetaValid(q_or_2theta)
        THEN [exc |-> "ValueError", fs |-> files]
        ELSE IF v.exc # "none"
        THEN [exc |-> v.exc, fs |-> files]
        ELSE IF ~ColumnsMatch(cols)
        THEN [exc |-> "ValueError", fs |-> WriteFile(files, v.file_path, head)]
        ELSE [exc |-> "none",
              fs |-> WriteFile(files, v.file_path, head \o SaveTxt(cols))]

\* lines[i:i + k] for i in range(0, len(lines), k)
RECURSIVE Chunks(_, _)
Chunks(recs, k) ==
    IF Len(recs) = 0 THEN <<>>
    ELSE << SubSeq(recs, 1, Min(k, Len(recs))) >>
         \o Chunks(SubSeq(recs, Min(k, Len(recs)) + 1, Len(recs)), k)

\* zip(...): as long as the shortest argument.
MinLen(cols) ==
    LET RECURSIVE M(_)
        M(i) == IF i = Len(cols) THEN Len(cols[i]) ELSE Min(Len(cols[i]), M(i + 1))
    IN  M(1)
Zip(cols) == [r \in 1..MinLen(cols) |-> [c \in 1..Len(cols) |-> cols[c][r]]]

\* int(np.ceil(n / d))
CeilDiv(n, d) == (n + d - 1) \div d

\* output.py 157-160: scale is 1 for intensities in 1..max_intensity, the
\* only ones drawn.
GsasScale(intensity) == 1

\* output.py 177-178 without the reset of mode.
EffectiveModeAsGiven(mode, err) == mode
\* output.py 177-178: without err the mode is 'std', whatever was passed.
EffectiveMode(mode, err) == IF err = NoneSeq THEN "std" ELSE mode

\* output.py 161-216: the lines of the file for the three modes.
GsasLines(tth, intensity, output_name, mode, err) ==
    LET scale == GsasScale(intensity)
        n_chan == Len(intensity)
        title == [k |-> "title", name |-> output_name, scale |-> scale]
        bank(n_rec, tag) ==
            [k |-> "bank", n_chan |-> n_chan, n_rec |-> n_rec, tag |-> tag]
        recline(vals) == [k |-> "rec", vals |-> vals]
    IN  IF mode = "std"
        THEN LET lrecs == [i \in 1..n_chan |-> <<intensity[i] * scale>>]
                 ch == Chunks(lrecs, 10)
             IN  <<title, bank(CeilDiv(n_chan, 10), "STD")>>
                 \o [i \in 1..Len(ch) |-> recline(ch[i])]
        ELSE IF mode = "esd"
        THEN LET z == Zip(<<intensity, err>>)
                 l_recs == [i \in 1..Len(z) |-> <<z[i][1], z[i][2] * scale>>]
                 ch == Chunks(l_recs, 5)
             IN  <<title, bank(CeilDiv(n_chan, 5), "ESD")>>
                 \o [i \in 1..Len(ch) |-> recline(ch[i])]
        ELSE LET z == Zip(<<tth, intensity, err>>)
                 l_recs == [i \in 1..Len(z) |->
                              <<z[i][1] * scale, z[i][2] * scale, z[i][3] * scale>>]
             IN  <<title, bank(n_chan, "FXYE")>>
                 \o [i \in 1..Len(l_recs) |-> recline(<<l_recs[i]>>)]

\* output.py 216: "\r\n".join(lines) + "\r\n"
JoinCRLF(lines) ==
    LET RECURSIVE J(_)
        J(i) == IF i > Len(lines) THEN <<>> ELSE <<lines[i], CRLF>> \o J(i + 1)
    IN  J(1)

\* output.py 123-219.
save_gsas(files, tth, intensity, output_name, ext, mode, err, dir_path) ==
    LET v == _valid_inputs(tth, intensity, output_name, ext, err, dir_path)
        m == EffectiveMode(mode, err)
    IN  IF v.exc # "none"
        THEN [exc |-> v.exc, fs |-> files]
        ELSE IF m \notin {"std", "esd", "fxye"}
        THEN [exc |-> "ValueError", fs |-> files]
        ELSE [exc |-> "none",
              fs |-> WriteFile(files, v.file_path,
                               JoinCRLF(GsasLines(tth, intensity, output_name, m, err)))]

\* The arguments drawn.
DataValues == {1, MaxVal}
Patterns == SeqsOf(DataValues, 1..MaxRows)
Errs == {NoneSeq} \cup Patterns
OutputNames == {"function_values"}
OutputExts == {".chi", ".dat", ".xye"}
GsasExts == {".gsas", ".xye"}
QOr2thetas == {"Q", "2theta", "q"}
GsasModes == {None, "std", "esd", "fxye", "xye"}
DirPaths == {None, "data", "missing"}

\* A file system with a file already at every path a call can write to.
OldFiles ==
    [p \in (ExistingDirs \cup {None}) \X OutputNames \X (OutputExts \cup GsasExts)
        |-> <<Text("old"), NL>>]

InitOutput ==
    /\ pc = "ready"
    /\ call = NoCall
    /\ ret = NoRet
    /\ loop = NoLoop
    /\ param_hints = NoDict
    /\ fs \in {NoFiles, OldFiles}
    /\ im = NoImage
    /\ xrf_parameter = NoDict
    /\ heap = NoDict

CallSaveOutput ==
    /\ pc = "ready"
    /\ \E tth \in Patterns, intensity \in Patterns, err \in Errs,
          output_name \in OutputNames, q_or_2theta \in QOr2thetas,
          ext \in OutputExts, dir_path \in DirPaths :
         LET r == save_output(fs, tth, intensity, output_name, q_or_2theta,
                              ext, err, dir_path)
         IN  /\ call' = [fn |-> "save_output", tth |-> tth, intensity |-> intensity,
                         output_name |-> output_name, q_or_2theta |-> q_or_2theta,
                         ext |-> ext, mode |-> None, err |-> err,
                         dir_path |-> dir_path, fs_before |-> fs]
             /\ ret' = Raise(r.exc)
             /\ fs' = r.fs
    /\ pc' = "done"
    /\ UNCHANGED <<im, xrf_parameter, heap, loop, param_hints>>

CallSaveGsas ==
    /\ pc = "ready"
    /\ \E tth \in Patterns, intensity \in Patterns, err \in Errs,
          output_name \in OutputNames, mode \in GsasModes,
          ext \in GsasExts, dir_path \in DirPaths :
         LET r == save_gsas(fs, tth, intensity, output_name, ext, mode, err, dir_path)
         IN  /\ call' = [fn |-> "save_gsas", tth |-> tth, intensity |-> intensity,
                         output_name |-> output_name, q_or_2theta |-> None,
                         ext |-> ext, mode |-> mode, err |-> err,
                         dir_path |-> dir_path, fs_before |-> fs]
             /\ ret' = Raise(r.exc)
             /\ fs' = r.fs
    /\ pc' = "done"
    /\ UNCHANGED <<im, xrf_parameter, heap, loop, param_hints>>

NextOutput == CallSaveOutput \/ CallSaveGsas

SpecOutput == InitOutput /\ [][NextOutput]_vars

\* A call of one of the two writers has ended.
WriterDone == pc = "done" /\ call.fn \in {"save_output", "save_gsas"}

\* The call left every file as it was and created none.
NoFileTouched == fs = call.fs_before

\* The path the call writes to when its arguments are accepted.
TargetPath == <<call.dir_path, call.output_name, call.ext>>

\* One of the invalid-argument cases listed for the writers.
C2_Invalid ==
    \/ (call.fn = "save_output" /\ call.q_or_2theta \notin {"Q", "2theta"})
    \/ Len(call.tth) # Len(call.intensity)
    \/ (call.ext = ".xye" /\ call.err = NoneSeq)
    \/ (call.dir_path # None /\ call.dir_path \notin ExistingDirs)

\* C2: save_output and save_gsas raise ValueError before the output file is
\* opened, leaving every file as it was, when q_or_2theta is neither 'Q' nor
\* '2theta' (save_output), len(tth) != len(intensity), ext is '.xye' while err
\* is None, or dir_path is given and does not exist.
C2_RejectsBeforeOpen ==
    (WriterDone /\ C2_Invalid) => (ret.exc = "ValueError" /\ NoFileTouched)

\* C2 witness: save_output was called with q_or_2theta = 'q' and otherwise
\* valid arguments over an existing file, and raised.
C2_Witness ==
    /\ WriterDone /\ call.fn = "save_output"
    /\ call.q_or_2theta = "q"
    /\ Len(call.tth) = Len(call.intensity)
    /\ call.err = NoneSeq /\ call.ext = ".chi" /\ call.dir_path = "data"
    /\ TargetPath \in DOMAIN call.fs_before
    /\ ret.exc = "ValueError"

\* C3 (as claimed): when err is supplied and len(err) differs from len(tth) and
\* len(intensity), save_output and save_gsas raise ValueError and nothing has
\* been written to the output file.
C3_RejectsErrLength ==
    (/\ WriterDone
     /\ call.err # NoneSeq
     /\ Len(call.err) # Len(call.tth)
     /\ Len(call.err) # Len(call.intensity))
    => (ret.exc = "ValueError" /\ NoFileTouched)

\* C4 (as claimed): save_gsas raises ValueError and writes no file for every
\* mode string that is not 'std', 'esd' or 'fxye', with or without err.
C4_EveryBadModeRejected ==
    (/\ WriterDone /\ call.fn = "save_gsas"
     /\ call.mode \notin {None, "std", "esd", "fxye"})
    => (ret.exc = "ValueError" /\ NoFileTouched)

\* The file at the target path is a GSAS file whose BANK line carries `tag`.
GsasFileTagged(tag) ==
    /\ TargetPath \in DOMAIN fs
    /\ Len(fs[TargetPath]) >= 3
    /\ fs[TargetPath][3].k = "bank"
    /\ fs[TargetPath][3].tag = tag

\* C4 (amended): with err supplied, save_gsas raises ValueError and writes no
\* file for every mode that is not 'std', 'esd' or 'fxye'; with err = None the
\* mode is ignored: a call whose other arguments are valid raises nothing and
\* writes a STD file.
C4_BadModeRejectedWithErr ==
    (/\ WriterDone /\ call.fn = "save_gsas"
     /\ call.mode \notin {"std", "esd", "fxye"})
    => /\ call.err # NoneSeq => (ret.exc = "ValueError" /\ NoFileTouched)
       /\ (call.err = NoneSeq /\ ~C2_Invalid) =>
              (ret.exc = "none" /\ GsasFileTagged("STD"))

\* C4 witness: save_gsas was called with err, mode 'xye' and otherwise valid
\* arguments, and raised without touching the existing file.
C4_Witness ==
    /\ WriterDone /\ call.fn = "save_gsas"
    /\ call.mode = "xye" /\ call.err # NoneSeq
    /\ ~C2_Invalid
    /\ Len(call.err) = Len(call.tth)
    /\ TargetPath \in DOMAIN call.fs_before
    /\ ret.exc = "ValueError" /\ NoFileTouched

\* The lines of a file: the tokens between newlines (a final newline ends the
\* last line and starts no new one).
RECURSIVE LinesFrom(_, _, _)
LinesFrom(tokens, i, cur) ==
    IF i > Len(tokens) THEN (IF cur = <<>> THEN <<>> ELSE <<cur>>)
    ELSE IF tokens[i].k = "nl" THEN <<cur>> \o LinesFrom(tokens, i + 1, <<>>)
    ELSE LinesFrom(tokens, i + 1, Append(cur, tokens[i]))
Lines(tokens) == LinesFrom(tokens, 1, <<>>)

\* float('d.ddde+XX')
ParseE(f) == f.lead * Pow10(f.exp) + f.frac

\* np.loadtxt(fname, skiprows=n): the first n lines are dropped, blank lines
\* are skipped, every other line is a row of numbers.
LoadTxt(tokens, skiprows) ==
    LET ls == Lines(tokens)
        rest == SubSeq(ls, skiprows + 1, Len(ls))
        data == SelectSeq(rest, LAMBDA l : l # <<>>)
    IN  [r \in 1..Len(data) |->
            [c \in 1..Len(data[r][1].cols) |-> ParseE(data[r][1].cols[c])]]

\* The number of lines before the first data row.
HeaderLineCount(tokens) ==
    LET ls == Lines(tokens)
    IN  Cardinality({i \in 1..Len(ls) :
            \A j \in 1..i : \A t \in 1..Len(ls[j]) : ls[j][t].k # "row"})

\* The rows handed to save_output: tth, intensity and, when given, err.
C10_Rows ==
    Zip(IF call.err = NoneSeq THEN <<call.tth, call.intensity>>
        ELSE <<call.tth, call.intensity, call.err>>)

\* C10 (as claimed): a file written by save_output is exactly 8 header lines
\* followed by len(tth) data rows; read back skipping the first 8 lines it
\* gives, in order and with all rows, the tth, intensity and err columns.
C10_EightHeaderLines ==
    (WriterDone /\ call.fn = "save_output" /\ ret.exc = "none")
    => /\ HeaderLineCount(fs[TargetPath]) = 8
       /\ Len(Lines(fs[TargetPath])) = 8 + Len(call.tth)
       /\ LoadTxt(fs[TargetPath], 8) = C10_Rows

-----------------------------------------------------------------------------
(***************************************************************************)
(* nsls2/recip.py: process_to_q                                            *)
(*                                                                         *)
(* What the function inspects of setting_angles is its shape: the model    *)
(* passes the shape, a tuple of dimensions (<<>> for a scalar).  The C     *)
(* routine ctrans.ccdToQ is outside the repository: the model records that *)
(* it was invoked and with which mode and angles.                          *)
(***************************************************************************)

\* Largest dimension of setting_angles drawn.
MaxDim == 7
\* recip.py 146: the number of angles of one image.
NumAngles == 6

\* recip.py 175: process_to_q.frame_mode
frame_mode_list == <<"theta", "phi", "cart", "hkl">>

\* enumerate() without the + 1.
StrToIntZeroBased(frame_mode) ==
    IF \E j \in 1..Len(frame_mode_list) : frame_mode_list[j] = frame_mode
    THEN [exc |-> "none",
          value |-> (CHOOSE j \in 1..Len(frame_mode_list) :
                        frame_mode_list[j] = frame_mode) - 1]
    ELSE Raise("KeyError")
\* recip.py 134-136: str_to_int[frame_mode], a dictionary from each name to
\* its 1-based position; a name that is no key raises KeyError.
StrToInt(frame_mode) ==
    IF \E j \in 1..Len(frame_mode_list) : frame_mode_list[j] = frame_mode
    THEN [exc |-> "none",
          value |-> CHOOSE j \in 1..Len(frame_mode_list) :
                        frame_mode_list[j] = frame_mode]
    ELSE Raise("KeyError")

\* np.atleast_2d leaving the shape as it is.
AtLeast2dAsGiven(shape) == shape
\* np.atleast_2d: a scalar becomes 1 x 1, a 1-D array of n becomes 1 x n.
AtLeast2d(shape) ==
    IF Len(shape) = 0 THEN <<1, 1>>
    ELSE IF Len(shape) = 1 THEN <<1, shape[1]>>
    ELSE shape

\* recip.py 61-171.
process_to_q(shape, frame_mode) ==
    LET m == IF frame_mode = None THEN [exc |-> "none", value |-> 4]
             ELSE StrToInt(frame_mode)
        setting_angles == AtLeast2d(shape)
    IN  IF m.exc # "none" THEN Raise(m.exc)
        ELSE IF Len(setting_angles) # 2 THEN Raise("ValueError")
        ELSE IF setting_angles[2] # NumAngles THEN Raise("ValueError")
        ELSE [exc |-> "none",
              ccdToQ |-> [mode |-> m.value, angles |-> setting_angles]]

AngleShapes == SeqsOf(1..MaxDim, 0..3)
FrameModes == {None, "theta", "phi", "cart", "hkl", "q"}

InitRecip ==
    /\ pc = "ready"
    /\ call = NoCall
    /\ ret = NoRet
    /\ loop = NoLoop
    /\ param_hints = NoDict
    /\ fs = NoFiles
    /\ im = NoImage
    /\ xrf_parameter = NoDict
    /\ heap = NoDict

CallProcessToQ ==
    /\ pc = "ready"
    /\ \E shape \in AngleShapes, frame_mode \in FrameModes :
         /\ call' = [fn |-> "process_to_q", shape |-> shape, frame_mode |-> frame_mode]
         /\ ret' = process_to_q(shape, frame_mode)
    /\ pc' = "done"
    /\ UNCHANGED <<fs, im, xrf_parameter, heap, loop, param_hints>>

NextRecip == CallProcessToQ

SpecRecip == InitRecip /\ [][NextRecip]_vars

RecipDone == pc = "done" /\ call.fn = "process_to_q"

\* The conversion routine was invoked by the call.
CcdToQInvoked == "ccdToQ" \in DOMAIN ret

\* setting_angles, promoted to at least 2-D, is not 2-D or has not exactly 6
\* columns: 0-D and 1-D arrays are promoted to one row.
C5_BadAngles ==
    \/ Len(call.shape) > 2
    \/ (Len(call.shape) = 2 /\ call.shape[2] # 6)
    \/ (Len(call.shape) = 1 /\ call.shape[1] # 6)
    \/ Len(call.shape) = 0

\* C5 (as claimed): process_to_q raises ValueError before ccdToQ is invoked
\* whenever setting_angles, promoted to at least 2-D, is not 2-D or has not
\* exactly 6 columns; a 1-D sequence of 6 angles is accepted as one image.
C5_BadAnglesRaiseValueError ==
    RecipDone =>
        /\ C5_BadAngles => ret = Raise("ValueError")
        /\ call.shape = <<6>> =>
               (ret.exc = "none" /\ CcdToQInvoked /\ ret.ccdToQ.angles = <<1, 6>>)

\* C5 (amended): whenever setting_angles is bad in that sense process_to_q
\* raises before ccdToQ is invoked, and what it raises is ValueError when
\* frame_mode is None or one of the four valid names (any other frame_mode
\* has raised KeyError before the angles are looked at); with such a
\* frame_mode a 1-D sequence of 6 angles is accepted as one image.
C5_BadAnglesRaise ==
    RecipDone =>
        /\ C5_BadAngles => (ret.exc # "none" /\ ~CcdToQInvoked)
        /\ call.frame_mode \in {None, "theta", "phi", "cart", "hkl"} =>
              /\ C5_BadAngles => ret = Raise("ValueError")
              /\ call.shape = <<6>> =>
                    (ret.exc = "none" /\ CcdToQInvoked
                     /\ ret.ccdToQ.angles = <<1, 6>>)

\* C5 witness: a 1-D sequence of 7 angles with frame_mode 'phi' has raised
\* ValueError.
C5_Witness ==
    /\ RecipDone
    /\ call.shape = <<7>> /\ call.frame_mode = "phi"
    /\ ret = Raise("ValueError")

\* The mode number documented for a frame_mode.
C6_Mode(frame_mode) ==
    CASE frame_mode = "theta" -> 1
      [] frame_mode = "phi" -> 2
      [] frame_mode = "cart" -> 3
      [] frame_mode = "hkl" -> 4
      [] frame_mode = None -> 4

\* C6: frame_mode None behaves exactly as 'hkl' (mode 4); 'theta', 'phi',
\* 'cart', 'hkl' select modes 1, 2, 3, 4; any other string raises before the
\* conversion routine is invoked.
C6_FrameModeSelection ==
    RecipDone =>
        /\ call.frame_mode \notin {None, "theta", "phi", "cart", "hkl"} =>
               (ret.exc # "none" /\ ~CcdToQInvoked)
        /\ (call.frame_mode \in {None, "theta", "phi", "cart", "hkl"}
            /\ ~C5_BadAngles) =>
               (ret.exc = "none" /\ CcdToQInvoked
                /\ ret.ccdToQ.mode = C6_Mode(call.frame_mode))
        /\ call.frame_mode = None => ret = process_to_q(call.shape, "hkl")

\* C6 witness: three images of six angles were converted with frame_mode
\* 'cart', mode 3.
C6_Witness ==
    /\ RecipDone
    /\ call.frame_mode = "cart" /\ call.shape = <<3, 6>>
    /\ CcdToQInvoked /\ ret.ccdToQ.mode = 3

-----------------------------------------------------------------------------
(***************************************************************************)
(* skxray/dpc.py: image_reduction                                          *)
(*                                                                         *)
(* An image is a sequence of rows.  im[x, y] of the source is row x,       *)
(* column y, both 0-based; a negative index counts from the end.  The      *)
(* variable im is the caller's array, which the function is handed by      *)
(* reference.                                                              *)
(***************************************************************************)

\* Rows and columns of the images drawn.
ImRows == 2
ImCols == 3

NumRows(img) == Len(img)
NumCols(img) == IF Len(img) = 0 THEN 0 ELSE Len(img[1])

\* numpy: an index i of an axis of length n is valid for -n <= i < n.
IndexInRange(i, n) == (0 - n) <= i /\ i < n
\* The 1-based position a valid index stands for.
Position(i, n) == IF i < 0 THEN i + n + 1 ELSE i + 1

\* dpc.py 77-80 with the IndexError let through.
BadPixelErrorUncaught(img, x, y) ==
    IF IndexInRange(x, NumRows(img)) /\ IndexInRange(y, NumCols(img))
    THEN "none" ELSE "IndexError"
\* dpc.py 77-80: the exception that leaves the try statement: the IndexError
\* of an index out of range is caught and a message printed.
BadPixelError(img, x, y) == "none"

\* dpc.py 78: im[x, y] = 0, in place; nothing is assigned when the index is
\* out of range.
SetBadPixel(img, x, y) ==
    IF IndexInRange(x, NumRows(img)) /\ IndexInRange(y, NumCols(img))
    THEN [r \in 1..NumRows(img) |-> [c \in 1..NumCols(img) |->
            IF r = Position(x, NumRows(img)) /\ c = Position(y, NumCols(img))
            THEN 0 ELSE img[r][c]]]
    ELSE img

\* dpc.py 75-80: the loop over bad_pixels (None: no loop).
RECURSIVE ZeroBadPixels(_, _)
ZeroBadPixels(img, bad_pixels) ==
    IF Len(bad_pixels) = 0 THEN img
    ELSE ZeroBadPixels(SetBadPixel(img, Head(bad_pixels)[1], Head(bad_pixels)[2]),
                       Tail(bad_pixels))

\* The first exception of the loop that is not caught.
RECURSIVE BadPixelsError(_, _)
BadPixelsError(img, bad_pixels) ==
    IF Len(bad_pixels) = 0 THEN "none"
    ELSE IF BadPixelError(img, Head(bad_pixels)[1], Head(bad_pixels)[2]) # "none"
    THEN BadPixelError(img, Head(bad_pixels)[1], Head(bad_pixels)[2])
    ELSE BadPixelsError(img, Tail(bad_pixels))

\* A slice bound i on an axis of length n: negative counts from the end, and
\* the result is clipped to 0..n (a slice never raises).
SliceBound(i, n) == IF i < 0 THEN Max(i + n, 0) ELSE Min(i, n)

\* dpc.py 85: im[x1:x2, y1:y2], a view; the name im is rebound to it.
Crop(img, x1, y1, x2, y2) ==
    LET r1 == SliceBound(x1, NumRows(img))
        r2 == SliceBound(x2, NumRows(img))
        c1 == SliceBound(y1, NumCols(img))
        c2 == SliceBound(y2, NumCols(img))
        nr == Max(r2 - r1, 0)
        nc == Max(c2 - c1, 0)
    IN  [rows |-> nr, cols |-> nc,
         at |-> [r \in 1..nr |-> [c \in 1..nc |-> img[r1 + r][c1 + c]]]]

\* The whole image as a view.
Whole(img) == [rows |-> NumRows(img), cols |-> NumCols(img), at |-> img]

\* The sum taken along the second axis where the first is meant.
SumAxis0Transposed(v) ==
    [r \in 1..v.rows |-> SumSeq([c \in 1..v.cols |-> v.at[r][c]])]
\* np.sum(im, axis=0): one sum per column.
SumAxis0(v) ==
    [c \in 1..v.cols |-> SumSeq([r \in 1..v.rows |-> v.at[r][c]])]
\* np.sum(im, axis=1): one sum per row.
SumAxis1(v) ==
    [r \in 1..v.rows |-> SumSeq([c \in 1..v.cols |-> v.at[r][c]])]

\* dpc.py 48-92.  The result is what was raised or returned and the caller's
\* array as the call leaves it.
image_reduction(img, roi, bad_pixels) ==
    LET zeroed == ZeroBadPixels(img, bad_pixels)
        e == BadPixelsError(img, bad_pixels)
        view == IF roi = NoneSeq THEN Whole(zeroed)
                ELSE Crop(zeroed, roi[1], roi[2], roi[3], roi[4])
    IN  IF e # "none"
        THEN [ret |-> Raise(e), im |-> zeroed]
        ELSE [ret |-> [exc |-> "none", xline |-> SumAxis0(view),
                       yline |-> SumAxis1(view)],
              im |-> zeroed]

RECURSIVE Pow2(_)
Pow2(n) == IF n = 0 THEN 1 ELSE 2 * Pow2(n - 1)

\* The images drawn: every pixel a different power of two (a sum tells which
\* pixels are in it), and every pixel 1.
Images ==
    { [r \in 1..ImRows |-> [c \in 1..ImCols |-> Pow2((r - 1) * ImCols + (c - 1))]],
      [r \in 1..ImRows |-> [c \in 1..ImCols |-> 1]] }

\* ROIs: None or a rectangle with corners from one step outside the image on
\* either side.
Rois ==
    {NoneSeq} \cup
    { <<x1, y1, x2, y2>> : x1 \in (0 - 1)..(ImRows + 1), y1 \in (0 - 1)..(ImCols + 1),
                           x2 \in (0 - 1)..(ImRows + 1), y2 \in (0 - 1)..(ImCols + 1) }

\* Bad-pixel lists: None, one coordinate pair from one step beyond the valid
\* indices on either side, or two pairs of image corners.
BadPixelCoords ==
    ((0 - ImRows - 1)..ImRows) \X ((0 - ImCols - 1)..ImCols)
CornerCoords == {<<0, 0>>, <<ImRows - 1, ImCols - 1>>, <<ImRows, ImCols>>}
BadPixelLists ==
    {NoneSeq} \cup { <<p>> : p \in BadPixelCoords }
              \cup { <<p, q>> : p \in CornerCoords, q \in CornerCoords }

InitDPC ==
    /\ pc = "ready"
    /\ call = NoCall
    /\ ret = NoRet
    /\ loop = NoLoop
    /\ param_hints = NoDict
    /\ fs = NoFiles
    /\ im \in Images
    /\ xrf_parameter = NoDict
    /\ heap = NoDict

CallImageReduction ==
    /\ pc = "ready"
    /\ \E roi \in Rois, bad_pixels \in BadPixelLists :
         LET r == image_reduction(im, roi, bad_pixels)
         IN  /\ call' = [fn |-> "image_reduction", roi |-> roi,
                         bad_pixels |-> bad_pixels, im_before |-> im]
             /\ ret' = r.ret
             /\ im' = r.im
    /\ pc' = "done"
    /\ UNCHANGED <<fs, xrf_parameter, heap, loop, param_hints>>

\* dpc.py 131-132: dpc_fit's defaults for start_point and solver.
dpc_fit_start_point == <<1, 0>>
dpc_fit_solver == "Nelder-Mead"
\* dpc.py 184: recon's defaults for pad and w.
recon_pad == 1
recon_w == 1

\* dpc.py 131-178 (dpc_fit): the fit is scipy's minimize started from
\* start_point with method solver; what is kept of a fit is the two lines
\* fitted and these settings.
dpc_fit(ref_line, line, start_point, solver) ==
    [ref_f |-> ref_line, f |-> line, start_point |-> start_point, solver |-> solver]

\* dpc.py 349-362: the body of the loop over image_sequence, for one image:
\* the reduction (352) and the two fits (359-360).
DpcRunnerStep(ref_lines, img, roi) ==
    LET lines == image_reduction(img, roi, NoneSeq).ret
    IN  [lines |-> [xline |-> lines.xline, yline |-> lines.yline],
         fit_x |-> dpc_fit(ref_lines.xline, lines.xline,
                           dpc_fit_start_point, dpc_fit_solver),
         fit_y |-> dpc_fit(ref_lines.yline, lines.yline,
                           dpc_fit_start_point, dpc_fit_solver)]

\* dpc.py 267-375 (dpc_runner).  The result is phi, the reconstruction;
\* the model keeps what determines it: the lines of the reference (342),
\* per image the lines and the fits (349-365), and the pad and w recon is
\* run with (373).  start_point, solver, pad, w and bad_pixels are
\* parameters the body never reads.
dpc_runner(ref, image_sequence, roi, bad_pixels, start_point, solver, pad, w) ==
    LET lines == image_reduction(ref, roi, NoneSeq).ret
        ref_lines == [xline |-> lines.xline, yline |-> lines.yline]
    IN  [exc |-> "none",
         ref_lines |-> ref_lines,
         steps |-> [k \in 1..Len(image_sequence) |->
                      DpcRunnerStep(ref_lines, image_sequence[k], roi)],
         recon |-> [pad |-> recon_pad, w |-> recon_w]]

\* The arguments dpc_runner is called with: one or two scanned images, no ROI
\* or one inside the image, no bad pixels or one or two corners, and for
\* start_point, solver, pad and w the default or another value.
ImageSequences ==
    { <<a>> : a \in Images } \cup { <<a, b>> : a \in Images, b \in Images }
RunnerRois == {NoneSeq, <<0, 1, ImRows, ImCols>>}
RunnerBadPixels ==
    {NoneSeq, << <<0, 0>> >>, << <<0, 0>>, <<ImRows - 1, ImCols - 1>> >>}
StartPoints == {<<1, 0>>, <<2, 1>>}
Solvers == {"Nelder-Mead", "Powell"}
Pads == {1, 3}
Weights == {1, 2}

\* The reference image is the caller's array im; the scan grid (rows, cols)
\* has a place for every image of the sequence.
CallDpcRunner ==
    /\ pc = "ready"
    /\ \E image_sequence \in ImageSequences, roi \in RunnerRois,
          bad_pixels \in RunnerBadPixels, start_point \in StartPoints,
          solver \in Solvers, pad \in Pads, w \in Weights :
         /\ call' = [fn |-> "dpc_runner", ref |-> im,
                     image_sequence |-> image_sequence, roi |-> roi,
                     bad_pixels |-> bad_pixels, start_point |-> start_point,
                     solver |-> solver, pad |-> pad, w |-> w]
         /\ ret' = dpc_runner(im, image_sequence, roi, bad_pixels, start_point,
                              solver, pad, w)
    /\ pc' = "done"
    /\ UNCHANGED <<fs, im, xrf_parameter, heap, loop, param_hints>>

NextDPC == CallImageReduction \/ CallDpcRunner

SpecDPC == InitDPC /\ [][NextDPC]_vars

DPCDone == pc = "done" /\ call.fn = "image_reduction"

\* Some bad-pixel coordinate is out of range for the image: beyond the last
\* row or column, or further before the first one than a negative index
\* reaches.
C7_BadPixelOutside ==
    \E i \in 1..Len(call.bad_pixels) :
        \/ call.bad_pixels[i][1] >= ImRows \/ call.bad_pixels[i][1] < 0 - ImRows
        \/ call.bad_pixels[i][2] >= ImCols \/ call.bad_pixels[i][2] < 0 - ImCols
\* The ROI rectangle reaches beyond the last row or column of the image.
C7_RoiOutside ==
    /\ call.roi # NoneSeq
    /\ \/ call.roi[1] > ImRows \/ call.roi[3] > ImRows
       \/ call.roi[2] > ImCols \/ call.roi[4] > ImCols

\* C7 (as claimed): image_reduction raises an error, instead of returning
\* sums, when a bad-pixel coordinate or the ROI rectangle lies outside the
\* bounds of the image.
C7_OutOfBoundsRaises ==
    (DPCDone /\ (C7_BadPixelOutside \/ C7_RoiOutside)) => ret.exc # "none"

\* C7 (amended): image_reduction raises nothing when a bad-pixel coordinate or
\* the ROI rectangle lies outside the bounds of the image: it returns the two
\* sums, xline and yline.
C7_OutOfBoundsReturnsSums ==
    (DPCDone /\ (C7_BadPixelOutside \/ C7_RoiOutside)) =>
        (ret.exc = "none" /\ {"xline", "yline"} \subseteq DOMAIN ret)

\* C7 witness: a call with the bad pixel (ImRows, ImCols), one past the last
\* pixel, and no ROI has returned sums over the whole image.
C7_Witness ==
    /\ DPCDone
    /\ call.bad_pixels = << <<ImRows, ImCols>> >> /\ call.roi = NoneSeq
    /\ ret.exc = "none"
    /\ Len(ret.xline) = ImCols /\ Len(ret.yline) = ImRows

\* C8 (as claimed): image_reduction leaves the caller's image array unchanged
\* for every combination of roi and bad_pixels.
C8_ImageUnchanged ==
    DPCDone => im = call.im_before

RunnerDone == pc = "done" /\ call.fn = "dpc_runner"

\* The lines of an image reduced with the call's ROI after the call's bad
\* pixels are zeroed.
C15_Lines(img) ==
    LET r == image_reduction(img, call.roi, call.bad_pixels).ret
    IN  [xline |-> r.xline, yline |-> r.yline]

\* C15 (as claimed): dpc_runner applies every documented parameter to the
\* stage it configures: bad_pixels are zeroed in the reference and in each
\* scanned image before reduction, start_point and solver are used for every
\* fit, and pad and w are used for the final reconstruction.
C15_ParametersApplied ==
    RunnerDone =>
        /\ ret.ref_lines = C15_Lines(call.ref)
        /\ \A k \in 1..Len(call.image_sequence) :
              /\ ret.steps[k].lines = C15_Lines(call.image_sequence[k])
              /\ ret.steps[k].fit_x.start_point = call.start_point
              /\ ret.steps[k].fit_y.start_point = call.start_point
              /\ ret.steps[k].fit_x.solver = call.solver
              /\ ret.steps[k].fit_y.solver = call.solver
        /\ ret.recon.pad = call.pad
        /\ ret.recon.w = call.w

\* The ROI lies inside the image: 0 <= x1 <= x2 <= rows, 0 <= y1 <= y2 <= cols.
C16_RoiInRange ==
    /\ call.roi # NoneSeq
    /\ 0 <= call.roi[1] /\ call.roi[1] <= call.roi[3] /\ call.roi[3] <= ImRows
    /\ 0 <= call.roi[2] /\ call.roi[2] <= call.roi[4] /\ call.roi[4] <= ImCols

\* The pixel in row r, column c (1-based) of the image handed in, counted as
\* 0 when a listed bad pixel names it.
C16_Pixel(r, c) ==
    IF \E i \in 1..Len(call.bad_pixels) :
          LET x == call.bad_pixels[i][1]
              y == call.bad_pixels[i][2]
          IN  /\ IndexInRange(x, ImRows) /\ IndexInRange(y, ImCols)
              /\ Position(x, ImRows) = r /\ Position(y, ImCols) = c
    THEN 0 ELSE call.im_before[r][c]

\* The sum of C16_Pixel over the rows r1+1..r2 and the columns c1+1..c2.
RECURSIVE C16_SumRows(_, _, _)
C16_SumRows(r1, r2, c) ==
    IF r1 >= r2 THEN 0 ELSE C16_Pixel(r2, c) + C16_SumRows(r1, r2 - 1, c)
RECURSIVE C16_SumCols(_, _, _)
C16_SumCols(r, c1, c2) ==
    IF c1 >= c2 THEN 0 ELSE C16_Pixel(r, c2) + C16_SumCols(r, c1, c2 - 1)
RECURSIVE C16_SumRoi(_, _, _, _)
C16_SumRoi(r1, r2, c1, c2) ==
    IF r1 >= r2 THEN 0
    ELSE C16_SumCols(r2, c1, c2) + C16_SumRoi(r1, r2 - 1, c1, c2)

-----------------------------------------------------------------------------
(***************************************************************************)
(* nsls2/fitting/model/xrf_model.py: update_parameter_dict                 *)
(*                                                                         *)
(* Python dictionaries are objects handed around by reference.  heap maps  *)
(* an object reference to a nested per-parameter dictionary; a parameter   *)
(* dictionary such as the caller's xrf_parameter maps each key to the      *)
(* reference of its value.  A key is the tuple of the parts between its    *)
(* dashes: 'ratio-Fe-ka1' is <<"ratio", "Fe", "ka1">>; a fit-result name   *)
(* is the tuple of the parts between its underscores-joined pieces.        *)
(***************************************************************************)

\* Largest parameter value before the fit.
MaxParamValue == 1

\* dict.copy(): a new outer dictionary holding the same references.
ShallowCopy(d) == [k \in DOMAIN d |-> d[k]]

\* xrf_model.py 199-209: the name of the parameter in the fit results.
KNew(k) ==
    IF k[1] = "ratio" THEN <<k[2], k[3], "ratio_adjust">>
    ELSE IF k[1] = "pos" THEN <<k[2], k[3], "delta_center">>
    ELSE IF k[1] = "width" THEN <<k[2], k[3], "delta_sigma">>
    ELSE k

\* xrf_model.py 211-214: the nested dictionary v of key k after the loop body.
UpdatedEntry(v, k, fit_values, bound_option) ==
    LET w == [v EXCEPT !.bound_type = v[bound_option]]
    IN  IF KNew(k) \in DOMAIN fit_values
        THEN [w EXCEPT !.value = fit_values[KNew(k)]]
        ELSE w

\* The keys the loop works on: all but 'element_list' (197-198).
LoopKeys(d) == {k \in DOMAIN d : k # <<"element_list">>}

\* xrf_model.py 176-215.  The result is what was raised or returned and the
\* heap as the call leaves it.  v[str(bound_option)] raises KeyError when the
\* nested dictionary has no such field; the nested dictionaries drawn all
\* have the same fields, so this happens at the first key, before any
\* assignment.
update_parameter_dict(param, hp, fit_values, bound_option) ==
    LET new_parameter == ShallowCopy(param)
        keys == LoopKeys(new_parameter)
        refs == {new_parameter[k] : k \in keys}
        keyOf(r) == CHOOSE k \in keys : new_parameter[k] = r
    IN  IF \E k \in keys : bound_option \notin DOMAIN hp[new_parameter[k]]
        THEN [ret |-> Raise("KeyError"), heap |-> hp]
        ELSE [ret |-> [exc |-> "none", new_parameter |-> new_parameter],
              heap |-> [r \in DOMAIN hp |->
                          IF r \in refs
                          THEN UpdatedEntry(hp[r], keyOf(r), fit_values, bound_option)
                          ELSE hp[r]]]

ParamKeys == { <<"e_offset">>, <<"ratio", "Fe", "ka1">>, <<"pos", "Fe", "ka1">>,
               <<"width", "Fe", "ka1">> }
\* The nested dictionaries drawn: the current bound type and value and the
\* bound type of each of two fitting strategies.
NestedDicts ==
    [bound_type : {"none", "fixed"}, value : 0..MaxParamValue,
     fit_with_tail : {"fixed", "lohi"}, free_more : {"none"}]
BoundOptions == {"fit_with_tail", "free_more", "linear"}
\* fit_results.values: no parameter, one parameter or all of them, each with a
\* value no parameter has before the fit.
FitNames == {KNew(k) : k \in ParamKeys}
FitValues ==
    { [n \in S |-> MaxParamValue + 1] :
        S \in {{}} \cup {{n} : n \in FitNames} \cup {FitNames} }

\* The caller's dictionary: 'element_list' (reference 0) and two parameters
\* (references 1 and 2), each with its own nested dictionary.
InitXRF ==
    /\ pc = "ready"
    /\ call = NoCall
    /\ ret = NoRet
    /\ loop = NoLoop
    /\ param_hints = NoDict
    /\ fs = NoFiles
    /\ im = NoImage
    /\ \E k1 \in ParamKeys : \E k2 \in ParamKeys \ {k1} :
         xrf_parameter = [k \in {<<"element_list">>, k1, k2} |->
                            IF k = <<"element_list">> THEN 0
                            ELSE IF k = k1 THEN 1 ELSE 2]
    /\ \E d1 \in NestedDicts, d2 \in NestedDicts :
         heap = [r \in 0..2 |->
                   IF r = 0 THEN [element_list |-> "Fe"]
                   ELSE IF r = 1 THEN d1 ELSE d2]

CallUpdateParameterDict ==
    /\ pc = "ready"
    /\ \E fit_values \in FitValues, bound_option \in BoundOptions :
         LET r == update_parameter_dict(xrf_parameter, heap, fit_values, bound_option)
         IN  /\ call' = [fn |-> "update_parameter_dict", fit_values |-> fit_values,
                         bound_option |-> bound_option,
                         xrf_parameter_before |-> xrf_parameter,
                         heap_before |-> heap]
             /\ ret' = r.ret
             /\ heap' = r.heap
    /\ pc' = "done"
    /\ UNCHANGED <<fs, im, xrf_parameter, loop, param_hints>>

NextXRF == CallUpdateParameterDict

SpecXRF == InitXRF /\ [][NextXRF]_vars

XRFDone == pc = "done" /\ call.fn = "update_parameter_dict"

\* A parameter dictionary with every reference replaced by the nested
\* dictionary it points to.
Deep(d, hp) == [k \in DOMAIN d |-> hp[d[k]]]

\* C9 (as claimed): update_parameter_dict leaves its input xrf_parameter
\* unchanged, including the 'bound_type' and 'value' fields of every nested
\* per-parameter dictionary.
C9_InputUnchanged ==
    XRFDone =>
        Deep(xrf_parameter, heap) = Deep(call.xrf_parameter_before, call.heap_before)

\* A call has returned with the updates.
XRF_Returned ==
    /\ XRFDone /\ ret.exc = "none"
    /\ \E k \in LoopKeys(ret.new_parameter) :
          heap[ret.new_parameter[k]].value = MaxParamValue + 1

(***************************************************************************)
(* skxray.core.xsvs.xsvs                                                   *)
(*                                                                         *)
(* One image set is followed image by image.  An image is the flat         *)
(* (np.ravel) sequence of its pixels; `loop` holds the variables xsvs     *)
(* creates per image set (144-154) by their names, n (the images fed),    *)
(* images (the images fed, in order) and processed (the _process calls of *)
(* the latest image: level, buffer number and the buffer histogrammed).   *)
(* cur, track_level, img_per_level and the rows and columns of buf are    *)
(* indexed from 0 as in the source.  The probability arrays are           *)
(* floating-point statistics of the buffers in `processed`.               *)
(***************************************************************************)
MaxImages == 4
MaxNumberOfImg == 5

\* skxray.core.utils.geometric_series(common_ratio, number_of_images): the
\* terms 1, r, r^2, ... below number_of_images (the first always included).
RECURSIVE GeometricSeriesFrom(_, _, _)
GeometricSeriesFrom(series, common_ratio, number_of_images) ==
    IF series[Len(series)] * common_ratio < number_of_images
    THEN GeometricSeriesFrom(Append(series, series[Len(series)] * common_ratio),
                             common_ratio, number_of_images)
    ELSE series

geometric_series(common_ratio, number_of_images) ==
    GeometricSeriesFrom(<<1>>, common_ratio, number_of_images)

\* skxray.core.correlation.extract_label_indices(label_array): the flat
\* 0-based positions of the labelled (non-zero) pixels.
ExtractIndices(label_array) ==
    LET P == {i \in 1..Len(label_array) : label_array[i] > 0}
    IN  [k \in 1..Cardinality(P) |->
            (CHOOSE i \in P : Cardinality({j \in P : j < i}) = k - 1) - 1]

\* xsvs.py 163: (np.ravel(img))[indices].
RavelAt(img, indices) == [k \in 1..Len(indices) |-> img[indices[k] + 1]]

\* A numpy index into an axis of the given size: a negative one counts from
\* the end.
WrapIndex(i, size) == IF i < 0 THEN i + size ELSE i

\* xsvs.py 181-184: buf[level-1, prev-1] + buf[level-1, cur[level-1]-1].  A
\* buffer never written is the scalar 0 of np.zeros (here <<>>), which
\* numpy adds to every pixel.
AddBuffers(a, b) ==
    IF a = <<>> THEN b
    ELSE IF b = <<>> THEN a
    ELSE [k \in 1..Len(a) |-> a[k] + b[k]]

\* xsvs.py 208-253 (_process): counts the buffer at its level (239) and
\* histograms buf[level, buf_no] (242-251).
_process(l, level, buf_no, timebin_num) ==
    [l EXCEPT !.img_per_level[level] = @ + 1,
              !.processed = Append(@, [level |-> level, buf_no |-> buf_no,
                                       data |-> l.buf[level][WrapIndex(buf_no, timebin_num)]])]

\* The ring position of cur[level - 1] itself.
RingPreviousSameSlot(cur_below, timebin_num) == cur_below
\* xsvs.py 178: the ring position before cur[level - 1].
RingPrevious(cur_below, timebin_num) == 1 + ((cur_below - 2) % timebin_num)

\* xsvs.py 173-192: the while loop over the levels above 0.
RECURSIVE LevelLoop(_, _, _, _)
LevelLoop(l, level, num_times, timebin_num) ==
    IF level >= num_times THEN l
    ELSE IF l.track_level[level] = 0
    THEN [l EXCEPT !.track_level[level] = 1]
    ELSE LET prev == RingPrevious(l.cur[level - 1], timebin_num)
             c == 1 + (l.cur[level] % timebin_num)
             sum == AddBuffers(l.buf[level - 1][WrapIndex(prev - 1, timebin_num)],
                               l.buf[level - 1][WrapIndex(l.cur[level - 1] - 1, timebin_num)])
             l2 == [l EXCEPT !.cur[level] = c,
                             !.buf[level][WrapIndex(c - 1, timebin_num)] = sum,
                             !.track_level[level] = 0]
         IN  LevelLoop(_process(l2, level, c - 1, timebin_num),
                       level + 1, num_times, timebin_num)

\* xsvs.py 159-192: the body of the loop over the images, for one image.
FeedOne(l, img, indices, num_times, timebin_num) ==
    LET c == (1 + l.cur[0]) % timebin_num
        l1 == [l EXCEPT !.cur[0] = c,
                        !.buf[0][WrapIndex(c - 1, timebin_num)] = RavelAt(img, indices),
                        !.processed = <<>>,
                        !.images = Append(@, img),
                        !.n = @ + 1]
        l2 == _process(l1, 0, c - 1, timebin_num)
    IN  IF num_times > 1 THEN LevelLoop(l2, 1, num_times, timebin_num) ELSE l2

\* xsvs.py 144-154: the variables of one image set.
NewLoop(num_times, timebin_num) ==
    [n |-> 0,
     images |-> <<>>,
     processed |-> <<>>,
     buf |-> [i \in 0..(num_times - 1) |-> [b \in 0..(timebin_num - 1) |-> <<>>]],
     track_level |-> [i \in 0..(num_times - 1) |-> 0],
     cur |-> [i \in 0..(num_times - 1) |-> timebin_num],
     img_per_level |-> [i \in 0..(num_times - 1) |-> 0]]

\* The inputs: two-pixel images of counts 0 and 1, label arrays with one
\* ROI, ring sizes 2 and 3, and number_of_img giving one to three levels.
XsvsImages == [1..2 -> {0, 1}]
LabelArrays == {<<1, 0>>, <<0, 1>>, <<1, 1>>}
TimebinNums == {2, 3}
NumberOfImgs == 1..MaxNumberOfImg

NumTimes(c) == Len(geometric_series(c.timebin_num, c.number_of_img))

InitXsvs ==
    /\ pc = "ready"
    /\ call = NoCall
    /\ ret = NoRet
    /\ loop = NoLoop
    /\ param_hints = NoDict
    /\ fs = NoFiles
    /\ im = NoImage
    /\ xrf_parameter = NoDict
    /\ heap = NoDict

\* xsvs.py 108-157: the call, up to the first image of the image set.
CallXsvs ==
    /\ pc = "ready"
    /\ \E label_array \in LabelArrays, timebin_num \in TimebinNums,
          number_of_img \in NumberOfImgs :
         /\ call' = [fn |-> "xsvs", label_array |-> label_array,
                     timebin_num |-> timebin_num, number_of_img |-> number_of_img]
         /\ loop' = NewLoop(Len(geometric_series(timebin_num, number_of_img)),
                            timebin_num)
    /\ pc' = "images"
    /\ UNCHANGED <<ret, fs, im, xrf_parameter, heap, param_hints>>

\* xsvs.py 159-198: the next image of the image set.
FeedImage ==
    /\ pc = "images"
    /\ loop.n < MaxImages
    /\ \E img \in XsvsImages :
         loop' = FeedOne(loop, img, ExtractIndices(call.label_array),
                         NumTimes(call), call.timebin_num)
    /\ UNCHANGED <<pc, call, ret, fs, im, xrf_parameter, heap, param_hints>>

\* xsvs.py 200-205: the image set is exhausted and xsvs returns.
ReturnXsvs ==
    /\ pc = "images"
    /\ pc' = "done"
    /\ ret' = [exc |-> "none"]
    /\ UNCHANGED <<call, fs, im, xrf_parameter, heap, loop, param_hints>>

NextXsvs == CallXsvs \/ FeedImage \/ ReturnXsvs

SpecXsvs == InitXsvs /\ [][NextXsvs]_vars

XsvsFeeding == call.fn = "xsvs" /\ loop.n > 0

\* The pixelwise sum of the `count` images from the 1-based position `first`,
\* each reduced to its labelled pixels.
RECURSIVE C14_SumImages(_, _, _, _)
C14_SumImages(images, indices, first, count) ==
    IF count = 1 THEN RavelAt(images[first], indices)
    ELSE AddBuffers(RavelAt(images[first], indices),
                    C14_SumImages(images, indices, first + 1, count - 1))

RECURSIVE C14_Power(_, _)
C14_Power(b, e) == IF e = 0 THEN 1 ELSE b * C14_Power(b, e - 1)

\* C14 (as claimed): for every timebin_num >= 2 and every level L < num_times,
\* each buffer xsvs histograms at level L is the pixelwise sum of exactly
\* time_bin[L] = timebin_num^L consecutive images.
C14_BufferSumsTimeBin ==
    XsvsFeeding =>
        \A p \in 1..Len(loop.processed) :
            LET L == loop.processed[p].level
                width == geometric_series(call.timebin_num, call.number_of_img)[L + 1]
                indices == ExtractIndices(call.label_array)
            IN  /\ width = C14_Power(call.timebin_num, L)
                /\ \E first \in 1..loop.n :
                      /\ first + width - 1 <= loop.n
                      /\ loop.processed[p].data =
                            C14_SumImages(loop.images, indices, first, width)

\* C22: within one image set of xsvs, after n images have been fed, level L
\* has processed exactly floor(n / 2^L) buffers (img_per_level[L]), and the
\* m-th of them is the sum of the images (m-1)*2^L + 1 .. m*2^L, consecutive
\* and non-overlapping, with no image skipped or used twice, for every ring
\* size timebin_num >= 2.
C22_PairedBuffers ==
    (call.fn = "xsvs" /\ call.timebin_num >= 2) =>
        /\ \A L \in DOMAIN loop.img_per_level :
              loop.img_per_level[L] = loop.n \div C14_Power(2, L)
        /\ \A L \in DOMAIN loop.img_per_level :
              (loop.n > 0 /\ loop.n % C14_Power(2, L) = 0) <=>
                 (\E p \in 1..Len(loop.processed) : loop.processed[p].level = L)
        /\ \A p \in 1..Len(loop.processed) :
              LET L == loop.processed[p].level
                  m == loop.img_per_level[L]
              IN  /\ m >= 1 /\ m * C14_Power(2, L) = loop.n
                  /\ loop.processed[p].data =
                        C14_SumImages(loop.images, ExtractIndices(call.label_array),
                                      (m - 1) * C14_Power(2, L) + 1, C14_Power(2, L))

\* C22 witness: with a ring of 3, after four images level 1 has processed two
\* buffers and the second is the third image plus the fourth.
C22_Witness ==
    /\ call.fn = "xsvs" /\ call.timebin_num = 3 /\ call.label_array = <<1, 1>>
    /\ loop.n = 4
    /\ loop.images = << <<0, 0>>, <<0, 0>>, <<1, 1>>, <<1, 0>> >>
    /\ loop.img_per_level = (0 :> 4 @@ 1 :> 2)
    /\ \E p \in 1..Len(loop.processed) :
          loop.processed[p].level = 1 /\ loop.processed[p].data = <<2, 1>>

-----------------------------------------------------------------------------
(***************************************************************************)
(* nsls2/spectroscopy.py: align_and_scale                                  *)
(*                                                                         *)
(* pk_find_fun is a parameter: any function from a spectrum to the         *)
(* (E0, max_val, sigma) of its largest peak.  A call is given the value    *)
(* the function returns for each spectrum (peaks), with a width sigma that *)
(* is positive.  An element (e - E0) * base_sigma / sigma of a returned    *)
(* energy array is kept as the fraction num / den it is computed as.       *)
(***************************************************************************)
MaxSpectra == 3
MaxSigma == 2

\* spectroscopy.py 93-94: base_sigma after a spectrum of width sigma; None is
\* <<>>, a width s is <<s>>.
BaseSigmaLatest(base_sigma, sigma) == <<sigma>>
BaseSigma(base_sigma, sigma) ==
    IF base_sigma = NoneSeq THEN <<sigma>> ELSE base_sigma

\* spectroscopy.py 95: (e - E0) * base_sigma / sigma, element by element.
ShiftAndScale(e, E0, base_sigma, sigma) ==
    [i \in 1..Len(e) |-> [num |-> (e[i] - E0) * base_sigma, den |-> sigma]]

\* spectroscopy.py 88-96: the loop over zip(energy_list, counts_list), from
\* pair k on.
RECURSIVE AlignLoop(_, _, _, _, _, _, _)
AlignLoop(energy_list, counts_list, peaks, k, base_sigma, out_e, out_c) ==
    IF k > Min(Len(energy_list), Len(counts_list))
    THEN [exc |-> "none", out_e |-> out_e, out_c |-> out_c]
    ELSE LET b == BaseSigma(base_sigma, peaks[k].sigma)
         IN  AlignLoop(energy_list, counts_list, peaks, k + 1, b,
                       Append(out_e, ShiftAndScale(energy_list[k], peaks[k].E0,
                                                   b[1], peaks[k].sigma)),
                       Append(out_c, counts_list[k]))

\* spectroscopy.py 60-98.
align_and_scale(energy_list, counts_list, peaks) ==
    AlignLoop(energy_list, counts_list, peaks, 1, NoneSeq, <<>>, <<>>)

\* The arguments: up to MaxSpectra energy arrays and count arrays (the two
\* lists need not be as long as each other), and the peak of each pair.
EnergyArrays == {<<0, 1>>, <<1, 3>>}
CountArrays == {<<1, 2>>, <<2, 0>>}
Peaks == [E0 : {0, 1}, max_val : {2}, sigma : 1..MaxSigma]
SpectraCounts == 0..MaxSpectra

InitAlign ==
    /\ pc = "ready"
    /\ call = NoCall
    /\ ret = NoRet
    /\ loop = NoLoop
    /\ param_hints = NoDict
    /\ fs = NoFiles
    /\ im = NoImage
    /\ xrf_parameter = NoDict
    /\ heap = NoDict

CallAlignAndScale ==
    /\ pc = "ready"
    /\ \E ne \in SpectraCounts, nc \in SpectraCounts :
         \E energy_list \in [1..ne -> EnergyArrays],
            counts_list \in [1..nc -> CountArrays],
            peaks \in [1..Min(ne, nc) -> Peaks] :
           /\ call' = [fn |-> "align_and_scale", energy_list |-> energy_list,
                       counts_list |-> counts_list, peaks |-> peaks]
           /\ ret' = align_and_scale(energy_list, counts_list, peaks)
    /\ pc' = "done"
    /\ UNCHANGED <<fs, im, xrf_parameter, heap, loop, param_hints>>

NextAlign == CallAlignAndScale

SpecAlign == InitAlign /\ [][NextAlign]_vars

AlignDone == pc = "done" /\ call.fn = "align_and_scale"

\* C17: align_and_scale returns one (energy, counts) pair per input pair in
\* input order; each returned count array is the corresponding input array
\* unchanged; base_sigma is fixed by the first spectrum, so that out_e[k] =
\* (e_k - E0_k) * sigma_0 / sigma_k, and the first spectrum is only shifted,
\* not scaled.
C17_AlignedToFirst ==
    AlignDone =>
        LET n == Min(Len(call.energy_list), Len(call.counts_list))
        IN  /\ ret.exc = "none"
            /\ Len(ret.out_e) = n /\ Len(ret.out_c) = n
            /\ \A k \in 1..n :
                 /\ ret.out_c[k] = call.counts_list[k]
                 /\ Len(ret.out_e[k]) = Len(call.energy_list[k])
                 /\ \A i \in 1..Len(call.energy_list[k]) :
                      /\ ret.out_e[k][i].den # 0
                      /\ ret.out_e[k][i].num * call.peaks[k].sigma =
                           (call.energy_list[k][i] - call.peaks[k].E0)
                             * call.peaks[1].sigma * ret.out_e[k][i].den
            /\ n >= 1 =>
                 \A i \in 1..Len(call.energy_list[1]) :
                    ret.out_e[1][i].num =
                      (call.energy_list[1][i] - call.peaks[1].E0) * ret.out_e[1][i].den

\* C17 witness: three spectra of widths 2, 1 and 2: the second is stretched
\* by 2 and the third, as wide as the first, is not scaled.
C17_Witness ==
    /\ AlignDone /\ ret.exc = "none"
    /\ Len(ret.out_e) = 3
    /\ call.peaks[1].sigma = 2 /\ call.peaks[2].sigma = 1 /\ call.peaks[3].sigma = 2
    /\ call.energy_list[2] = <<1, 3>> /\ call.peaks[2].E0 = 0
    /\ ret.out_e[2][2] = [num |-> 6, den |-> 1]
    /\ ret.out_e[3][2].num = (call.energy_list[3][2] - call.peaks[3].E0) * ret.out_e[3][2].den

-----------------------------------------------------------------------------
(***************************************************************************)
(* skxray/dpc.py: recon                                                    *)
(*                                                                         *)
(* gx and gy are arrays of one shape, sequences of rows as the images      *)
(* above.  The Fourier integration of lines 234-257 turns the padded       *)
(* gradients into phi_padding, a real array of the same shape              *)
(* (pad * rows, pad * cols); dx, dy and w only enter its values.  The      *)
(* model keeps the padded gradients and, of phi, the block of phi_padding  *)
(* it is a view of.                                                        *)
(***************************************************************************)
MaxPad == 4
MaxGrad == 1

\* dpc.py 229, 259: the slice bounds (pad // 2) * size and
\* (pad // 2 + 1) * size of the block along an axis.
BlockStartRoundedUp(pad, size) == ((pad + 1) \div 2) * size
BlockStart(pad, size) == (pad \div 2) * size
BlockStop(pad, size) == (pad \div 2 + 1) * size

\* dpc.py 229-232: padding[r1:r2, c1:c2] = g on a zero array of pad * rows by
\* pad * cols.  numpy clips the slice to the array and broadcasts g to it: an
\* axis of g must be as long as the slice's or have length 1, or the
\* assignment raises ValueError.
PadAround(g, pad) ==
    LET rows == NumRows(g)
        cols == NumCols(g)
        r1 == SliceBound(BlockStart(pad, rows), pad * rows)
        r2 == SliceBound(BlockStop(pad, rows), pad * rows)
        c1 == SliceBound(BlockStart(pad, cols), pad * cols)
        c2 == SliceBound(BlockStop(pad, cols), pad * cols)
        nr == Max(r2 - r1, 0)
        nc == Max(c2 - c1, 0)
    IN  IF (rows # nr /\ rows # 1) \/ (cols # nc /\ cols # 1)
        THEN [exc |-> "ValueError"]
        ELSE [exc |-> "none",
              array |-> [r \in 1..(pad * rows) |-> [c \in 1..(pad * cols) |->
                          IF r1 < r /\ r <= r1 + nr /\ c1 < c /\ c <= c1 + nc
                          THEN g[IF rows = 1 THEN 1 ELSE r - r1][IF cols = 1 THEN 1 ELSE c - c1]
                          ELSE 0]]]

\* dpc.py 259-260: phi_padding[r1:r2, c1:c2], the view returned: its shape
\* and the row and column of phi_padding it starts after.
PhiBlock(rows, cols, pad) ==
    LET r1 == SliceBound(BlockStart(pad, rows), pad * rows)
        r2 == SliceBound(BlockStop(pad, rows), pad * rows)
        c1 == SliceBound(BlockStart(pad, cols), pad * cols)
        c2 == SliceBound(BlockStop(pad, cols), pad * cols)
    IN  [rows |-> Max(r2 - r1, 0), cols |-> Max(c2 - c1, 0),
         row0 |-> r1, col0 |-> c1]

\* dpc.py 184-263.
recon(gx, gy, pad) ==
    LET gx_padding == PadAround(gx, pad)
        gy_padding == PadAround(gy, pad)
    IN  IF gx_padding.exc # "none" THEN Raise(gx_padding.exc)
        ELSE IF gy_padding.exc # "none" THEN Raise(gy_padding.exc)
        ELSE [exc |-> "none",
              gx_padding |-> gx_padding.array,
              gy_padding |-> gy_padding.array,
              phi_padding |-> [rows |-> pad * NumRows(gx), cols |-> pad * NumCols(gx)],
              phi |-> PhiBlock(NumRows(gx), NumCols(gx), pad)]

\* The arguments: gradients gx and gy of one shape, of one to two rows and
\* columns with values in 0..MaxGrad, and an integer pad from 1.
GradShapes == {<<1, 1>>, <<1, 2>>, <<2, 1>>, <<2, 2>>}
Gradients(shape) == [1..shape[1] -> [1..shape[2] -> 0..MaxGrad]]
ReconPads == 1..MaxPad

InitRecon ==
    /\ pc = "ready"
    /\ call = NoCall
    /\ ret = NoRet
    /\ loop = NoLoop
    /\ param_hints = NoDict
    /\ fs = NoFiles
    /\ im = NoImage
    /\ xrf_parameter = NoDict
    /\ heap = NoDict

CallRecon ==
    /\ pc = "ready"
    /\ \E shape \in GradShapes, pad \in ReconPads :
         \E gx \in Gradients(shape), gy \in Gradients(shape) :
           /\ call' = [fn |-> "recon", gx |-> gx, gy |-> gy, pad |-> pad]
           /\ ret' = recon(gx, gy, pad)
    /\ pc' = "done"
    /\ UNCHANGED <<fs, im, xrf_parameter, heap, loop, param_hints>>

NextRecon == CallRecon

SpecRecon == InitRecon /\ [][NextRecon]_vars

ReconDone == pc = "done" /\ call.fn = "recon"

\* g sits in block (pad // 2, pad // 2) of the padded array p, which is zero
\* everywhere else.
C18_Embedded(p, g, pad) ==
    LET rows == Len(g)
        cols == Len(g[1])
        top == (pad \div 2) * rows
        left == (pad \div 2) * cols
    IN  /\ Len(p) = pad * rows
        /\ \A r \in 1..(pad * rows) :
             /\ Len(p[r]) = pad * cols
             /\ \A c \in 1..(pad * cols) :
                  p[r][c] = IF top < r /\ r <= top + rows /\ left < c /\ c <= left + cols
                            THEN g[r - top][c - left] ELSE 0

\* C18: for integer pad >= 1, recon embeds gx and gy in block (pad//2, pad//2)
\* of a zero array of shape (pad*rows, pad*cols), the whole array when
\* pad = 1 and the centre block when pad = 3; the block lies inside the
\* padded array, and phi is cut from the same block, so phi has the shape of
\* gx.
C18_PaddedBlock ==
    (ReconDone /\ call.pad >= 1) =>
        LET rows == Len(call.gx)
            cols == Len(call.gx[1])
            top == (call.pad \div 2) * rows
            left == (call.pad \div 2) * cols
        IN  /\ ret.exc = "none"
            /\ C18_Embedded(ret.gx_padding, call.gx, call.pad)
            /\ C18_Embedded(ret.gy_padding, call.gy, call.pad)
            /\ top + rows <= call.pad * rows /\ left + cols <= call.pad * cols
            /\ call.pad = 1 => (top = 0 /\ left = 0 /\ ret.gx_padding = call.gx)
            /\ call.pad = 3 => (top = rows /\ left = cols)
            /\ ret.phi_padding = [rows |-> call.pad * rows, cols |-> call.pad * cols]
            /\ ret.phi = [rows |-> rows, cols |-> cols, row0 |-> top, col0 |-> left]

\* C18 witness: a 2 x 2 gradient padded with pad = 3 sits in rows and columns
\* 3..4 of a 6 x 6 array, and phi is that block of phi_padding.
C18_Witness ==
    /\ ReconDone /\ ret.exc = "none"
    /\ call.pad = 3 /\ call.gx = <<<<1, 0>>, <<0, 1>>>>
    /\ Len(ret.gx_padding) = 6
    /\ ret.gx_padding[3] = <<0, 0, 1, 0, 0, 0>>
    /\ ret.gx_padding[4] = <<0, 0, 0, 1, 0, 0>>
    /\ ret.gx_padding[2] = <<0, 0, 0, 0, 0, 0>>
    /\ ret.phi = [rows |-> 2, cols |-> 2, row0 |-> 2, col0 |-> 2]

-----------------------------------------------------------------------------
(***************************************************************************)
(* nsls2/fitting/model: set_default (physics_model.py) and                 *)
(* _set_parameter_hint (xrf_model.py)                                      *)
(*                                                                         *)
(* Both hand a parameter's settings to lmfit's Model.set_param_hint, which *)
(* stores the keyword arguments under the parameter's name in the model's  *)
(* param_hints, over those stored before.  A parameter dictionary has the  *)
(* keys bound_type, value, min and max.  set_default is given a peak       *)
(* function that has default arguments, as elastic_peak and compton_peak   *)
(* (104, 114) have, and the dictionary get_para() returns.                 *)
(***************************************************************************)

\* lmfit's Model.set_param_hint(name, **kwargs).
set_param_hint(hints, name, kwargs) ==
    [n \in DOMAIN hints \cup {name} |->
        IF n # name THEN hints[n]
        ELSE IF name \in DOMAIN hints THEN kwargs @@ hints[name] ELSE kwargs]

\* physics_model.py 81-95 with the else branch setting a free parameter.
DefaultHintLenient(my_dict) ==
    IF my_dict.bound_type = "fixed"
    THEN [exc |-> "none", kwargs |-> [vary |-> FALSE, value |-> my_dict.value]]
    ELSE IF my_dict.bound_type = "lo"
    THEN [exc |-> "none", kwargs |-> [value |-> my_dict.value, vary |-> TRUE,
                                      min |-> my_dict.min]]
    ELSE IF my_dict.bound_type = "hi"
    THEN [exc |-> "none", kwargs |-> [value |-> my_dict.value, vary |-> TRUE,
                                      max |-> my_dict.max]]
    ELSE IF my_dict.bound_type = "lohi"
    THEN [exc |-> "none", kwargs |-> [value |-> my_dict.value, vary |-> TRUE,
                                      min |-> my_dict.min, max |-> my_dict.max]]
    ELSE [exc |-> "none", kwargs |-> [vary |-> TRUE]]

\* physics_model.py 81-95: the keyword arguments of the hint for a bound
\* type, or the TypeError of the else branch.
DefaultHint(my_dict) ==
    IF my_dict.bound_type = "none"
    THEN [exc |-> "none", kwargs |-> [vary |-> TRUE]]
    ELSE IF my_dict.bound_type = "fixed"
    THEN [exc |-> "none", kwargs |-> [vary |-> FALSE, value |-> my_dict.value]]
    ELSE IF my_dict.bound_type = "lo"
    THEN [exc |-> "none", kwargs |-> [value |-> my_dict.value, vary |-> TRUE,
                                      min |-> my_dict.min]]
    ELSE IF my_dict.bound_type = "hi"
    THEN [exc |-> "none", kwargs |-> [value |-> my_dict.value, vary |-> TRUE,
                                      max |-> my_dict.max]]
    ELSE IF my_dict.bound_type = "lohi"
    THEN [exc |-> "none", kwargs |-> [value |-> my_dict.value, vary |-> TRUE,
                                      min |-> my_dict.min, max |-> my_dict.max]]
    ELSE [exc |-> "TypeError"]

\* physics_model.py 75-95: the loop over my_args.
RECURSIVE SetDefaultLoop(_, _, _)
SetDefaultLoop(hints, my_args, para_dict) ==
    IF Len(my_args) = 0 THEN [ret |-> [exc |-> "none"], hints |-> hints]
    ELSE IF Head(my_args) \notin DOMAIN para_dict
    THEN SetDefaultLoop(hints, Tail(my_args), para_dict)
    ELSE LET h == DefaultHint(para_dict[Head(my_args)])
         IN  IF h.exc # "none" THEN [ret |-> Raise(h.exc), hints |-> hints]
             ELSE SetDefaultLoop(set_param_hint(hints, Head(my_args), h.kwargs),
                                 Tail(my_args), para_dict)

\* physics_model.py 57-95.  func_name is the argument specification of the
\* function: args and defaults (67); the first argument is dropped (72).
set_default(hints, func_name, para_dict) ==
    SetDefaultLoop(hints, Tail(func_name.args), para_dict)

\* xrf_model.py 154-168: the keyword arguments of the hint for a bound type
\* ('hi' passes the dictionary's max as min, 165-166), or the ValueError of
\* the else branch.
ParameterHint(input_dict) ==
    IF input_dict.bound_type = "none"
    THEN [exc |-> "none", kwargs |-> [value |-> input_dict.value, vary |-> TRUE]]
    ELSE IF input_dict.bound_type = "fixed"
    THEN [exc |-> "none", kwargs |-> [value |-> input_dict.value, vary |-> FALSE]]
    ELSE IF input_dict.bound_type = "lohi"
    THEN [exc |-> "none", kwargs |-> [value |-> input_dict.value, vary |-> TRUE,
                                      min |-> input_dict.min, max |-> input_dict.max]]
    ELSE IF input_dict.bound_type = "lo"
    THEN [exc |-> "none", kwargs |-> [value |-> input_dict.value, vary |-> TRUE,
                                      min |-> input_dict.min]]
    ELSE IF input_dict.bound_type = "hi"
    THEN [exc |-> "none", kwargs |-> [value |-> input_dict.value, vary |-> TRUE,
                                      min |-> input_dict.max]]
    ELSE [exc |-> "ValueError"]

\* xrf_model.py 137-173; log_option only writes a log line (169-172).
_set_parameter_hint(para_name, input_dict, hints, log_option) ==
    LET h == ParameterHint(input_dict)
    IN  IF h.exc # "none" THEN [ret |-> Raise(h.exc), hints |-> hints]
        ELSE [ret |-> [exc |-> "none"],
              hints |-> set_param_hint(hints, para_name, h.kwargs)]

\* The inputs: the five bound types and three others; parameter dictionaries
\* with min < value < max; peak functions of one or two parameters after x,
\* 'epsilon' with a default; a model with no hint or with one for 'area'.
BoundTypesDrawn == {"none", "fixed", "lo", "hi", "lohi", "LoHi", "free", ""}
ParamDicts == [bound_type : BoundTypesDrawn, value : {1, 2}, min : {0}, max : {3}]
ParaNames == {"area", "center"}
PeakFunctions ==
    { [args |-> a, defaults |-> <<2>>] :
        a \in { <<"x", "area", "epsilon">>, <<"x", "center", "epsilon">>,
                <<"x", "area", "center", "epsilon">>,
                <<"x", "center", "area", "epsilon">> } }
InitialHints == {NoDict, [area |-> [value |-> 0, vary |-> FALSE]]}

InitHint ==
    /\ pc = "ready"
    /\ call = NoCall
    /\ ret = NoRet
    /\ loop = NoLoop
    /\ param_hints \in InitialHints
    /\ fs = NoFiles
    /\ im = NoImage
    /\ xrf_parameter = NoDict
    /\ heap = NoDict

CallSetDefault ==
    /\ pc = "ready"
    /\ \E func_name \in PeakFunctions, para_dict \in [ParaNames -> ParamDicts] :
         LET r == set_default(param_hints, func_name, para_dict)
         IN  /\ call' = [fn |-> "set_default", func_name |-> func_name,
                         para_dict |-> para_dict, hints_before |-> param_hints]
             /\ ret' = r.ret
             /\ param_hints' = r.hints
    /\ pc' = "done"
    /\ UNCHANGED <<fs, im, xrf_parameter, heap, loop>>

CallSetParameterHint ==
    /\ pc = "ready"
    /\ \E para_name \in ParaNames, input_dict \in ParamDicts, log_option \in BOOLEAN :
         LET r == _set_parameter_hint(para_name, input_dict, param_hints, log_option)
         IN  /\ call' = [fn |-> "_set_parameter_hint", para_name |-> para_name,
                         input_dict |-> input_dict, log_option |-> log_option,
                         hints_before |-> param_hints]
             /\ ret' = r.ret
             /\ param_hints' = r.hints
    /\ pc' = "done"
    /\ UNCHANGED <<fs, im, xrf_parameter, heap, loop>>

NextHint == CallSetDefault \/ CallSetParameterHint

SpecHint == InitHint /\ [][NextHint]_vars

HintDone == pc = "done" /\ call.fn \in {"set_default", "_set_parameter_hint"}

C20_BoundTypes == {"none", "fixed", "lo", "hi", "lohi"}

\* The hint of a parameter in a hint dictionary: <<>> when it has none.
C20_HintOf(hints, name) == IF name \in DOMAIN hints THEN <<hints[name]>> ELSE <<>>

\* The parameters the call works on, each with its dictionary.
C20_Parameters ==
    IF call.fn = "_set_parameter_hint"
    THEN {[name |-> call.para_name, dict |-> call.input_dict]}
    ELSE {[name |-> n, dict |-> call.para_dict[n]] :
            n \in {call.func_name.args[i] : i \in 2..Len(call.func_name.args)}
                    \cap DOMAIN call.para_dict}

\* C20: set_default and _set_parameter_hint raise an exception and set no
\* hint for a parameter whose bound_type is not one of 'none', 'fixed', 'lo',
\* 'hi', 'lohi'; for each of these five values they do not raise.
C20_UnknownBoundTypeRaises ==
    HintDone =>
        /\ (\E p \in C20_Parameters : p.dict.bound_type \notin C20_BoundTypes)
              => ret.exc # "none"
        /\ \A p \in C20_Parameters :
              p.dict.bound_type \notin C20_BoundTypes =>
                 C20_HintOf(param_hints, p.name) = C20_HintOf(call.hints_before, p.name)
        /\ (\A p \in C20_Parameters : p.dict.bound_type \in C20_BoundTypes)
              => (ret.exc = "none" /\
                  \A p \in C20_Parameters : p.name \in DOMAIN param_hints)

\* C20 witness: set_default on a peak function of 'center' and 'area', with
\* 'center' bounded below and the bound type of 'area' unknown, has raised
\* after setting the hint for 'center' and none for 'area'.
C20_Witness ==
    /\ pc = "done" /\ call.fn = "set_default"
    /\ call.func_name.args = <<"x", "center", "area", "epsilon">>
    /\ call.para_dict["center"].bound_type = "lo"
    /\ call.para_dict["area"].bound_type = "free"
    /\ call.hints_before = NoDict
    /\ ret.exc = "TypeError"
    /\ DOMAIN param_hints = {"center"}
    /\ param_hints["center"].min = 0

-----------------------------------------------------------------------------
(***************************************************************************)
(* skxray/core/xsvs.py: normalize_bin_edges                                *)
(*                                                                         *)
(* A mean intensity is a positive fraction [num, den]; an edge or a centre *)
(* is kept as the fraction it is computed as.  Levels, ROIs and edges are  *)
(* numbered from 0 in the source and from 1 here.                          *)
(***************************************************************************)
MaxTimes == 3
MaxCts == 5

\* The edge divided by the mean alone.
NormalizedEdgeUnscaled(k, mean, i) == [num |-> k * mean.den, den |-> mean.num]
\* xsvs.py 286: element k of np.arange(max_cts*2**i) / (mean_roi[j]*2**i).
NormalizedEdge(k, mean, i) == [num |-> k * mean.den, den |-> mean.num * Pow2(i)]

\* xsvs.py 286: norm_bin_edges[i, j].
NormalizedEdges(max_cts, mean, i) ==
    [k \in 1..(max_cts * Pow2(i)) |-> NormalizedEdge(k - 1, mean, i)]

\* a - b and a + b / 2 on fractions.
FracMinus(a, b) == [num |-> a.num * b.den - b.num * a.den, den |-> a.den * b.den]
FracPlusHalf(a, b) == [num |-> 2 * a.num * b.den + b.num * a.den,
                       den |-> 2 * a.den * b.den]

\* skxray.core.utils.bin_edges_to_centers(input_edges):
\* input_edges[:-1] + np.diff(input_edges) * 0.5.
bin_edges_to_centers(input_edges) ==
    [k \in 1..(Len(input_edges) - 1) |->
        FracPlusHalf(input_edges[k], FracMinus(input_edges[k + 1], input_edges[k]))]

\* xsvs.py 256-289.
normalize_bin_edges(num_times, num_rois, mean_roi, max_cts) ==
    LET norm_bin_edges == [i \in 1..num_times |-> [j \in 1..num_rois |->
                              NormalizedEdges(max_cts, mean_roi[j], i - 1)]]
    IN  [exc |-> "none",
         norm_bin_edges |-> norm_bin_edges,
         norm_bin_centers |-> [i \in 1..num_times |-> [j \in 1..num_rois |->
                                  bin_edges_to_centers(norm_bin_edges[i][j])]]]

\* The arguments: up to MaxTimes levels, up to two ROIs with a mean of 1, 5/2
\* or 4 each, and max_cts from 1.
MeanValues == {[num |-> 1, den |-> 1], [num |-> 5, den |-> 2], [num |-> 4, den |-> 1]}
NumRois == 0..2

InitBinEdges ==
    /\ pc = "ready"
    /\ call = NoCall
    /\ ret = NoRet
    /\ loop = NoLoop
    /\ param_hints = NoDict
    /\ fs = NoFiles
    /\ im = NoImage
    /\ xrf_parameter = NoDict
    /\ heap = NoDict

CallNormalizeBinEdges ==
    /\ pc = "ready"
    /\ \E num_times \in 0..MaxTimes, num_rois \in NumRois, max_cts \in 1..MaxCts :
         \E mean_roi \in [1..num_rois -> MeanValues] :
           /\ call' = [fn |-> "normalize_bin_edges", num_times |-> num_times,
                       num_rois |-> num_rois, mean_roi |-> mean_roi,
                       max_cts |-> max_cts]
           /\ ret' = normalize_bin_edges(num_times, num_rois, mean_roi, max_cts)
    /\ pc' = "done"
    /\ UNCHANGED <<fs, im, xrf_parameter, heap, loop, param_hints>>

NextBinEdges == CallNormalizeBinEdges

SpecBinEdges == InitBinEdges /\ [][NextBinEdges]_vars

BinEdgesDone == pc = "done" /\ call.fn = "normalize_bin_edges"

\* Fractions a and b are the same number; fraction c is the midpoint of a
\* and b.
C19_Same(a, b) == a.den # 0 /\ b.den # 0 /\ a.num * b.den = b.num * a.den
C19_Midpoint(c, a, b) ==
    /\ c.den # 0 /\ a.den # 0 /\ b.den # 0
    /\ 2 * c.num * a.den * b.den = c.den * (a.num * b.den + b.num * a.den)

\* C19: normalize_bin_edges returns, for every time level i < num_times and
\* ROI j < num_rois, exactly max_cts*2^i bin edges, edge k equal to
\* k / (mean_roi[j] * 2^i) for k = 0 .. max_cts*2^i - 1, and exactly
\* max_cts*2^i - 1 bin centers, each the midpoint of two adjacent edges.
C19_EdgesAndCenters ==
    BinEdgesDone =>
        /\ ret.exc = "none"
        /\ Len(ret.norm_bin_edges) = call.num_times
        /\ Len(ret.norm_bin_centers) = call.num_times
        /\ \A i \in 0..(call.num_times - 1) :
             /\ Len(ret.norm_bin_edges[i + 1]) = call.num_rois
             /\ Len(ret.norm_bin_centers[i + 1]) = call.num_rois
             /\ \A j \in 0..(call.num_rois - 1) :
                  LET edges == ret.norm_bin_edges[i + 1][j + 1]
                      centers == ret.norm_bin_centers[i + 1][j + 1]
                      n == call.max_cts * C14_Power(2, i)
                      mean == call.mean_roi[j + 1]
                  IN  /\ Len(edges) = n
                      /\ \A k \in 0..(n - 1) :
                           C19_Same(edges[k + 1],
                                    [num |-> k * mean.den,
                                     den |-> mean.num * C14_Power(2, i)])
                      /\ Len(centers) = n - 1
                      /\ \A k \in 1..(n - 1) :
                           C19_Midpoint(centers[k], edges[k], edges[k + 1])

\* C19 witness: the call of test_normalize_bin_edges, 3 levels, the means 2.5
\* and 4.0 and max_cts = 5: bin_edges[0, 0] has 5 edges, the second 0.4;
\* bin_edges[2, 1] has 20 edges, the second 0.0625 and the last 1.1875; and
\* bin_cen[0, 0] has 4 centers, the first 0.2.
C19_Witness ==
    /\ BinEdgesDone /\ ret.exc = "none"
    /\ call.num_times = 3 /\ call.num_rois = 2 /\ call.max_cts = 5
    /\ call.mean_roi = <<[num |-> 5, den |-> 2], [num |-> 4, den |-> 1]>>
    /\ Len(ret.norm_bin_edges[1][1]) = 5
    /\ C19_Same(ret.norm_bin_edges[1][1][2], [num |-> 4, den |-> 10])
    /\ Len(ret.norm_bin_edges[3][2]) = 20
    /\ C19_Same(ret.norm_bin_edges[3][2][2], [num |-> 625, den |-> 10000])
    /\ C19_Same(ret.norm_bin_edges[3][2][20], [num |-> 11875, den |-> 10000])
    /\ Len(ret.norm_bin_centers[1][1]) = 4
    /\ C19_Same(ret.norm_bin_centers[1][1][1], [num |-> 2, den |-> 10])

-----------------------------------------------------------------------------
(***************************************************************************)
(* skxray/core/accumulators: Histogram, as test_histogram.py uses it       *)
(*                                                                         *)
(* A Histogram is built from one (bins, low, high) per axis, has the edges *)
(* np.linspace(low, high, bins + 1) per axis and values that start at 0;   *)
(* fill adds the weight of every sample to the bin it falls in.  The       *)
(* testers compare it with numpy's histogram over the same edges.  Samples *)
(* are integers; an edge low + k * (high - low) / bins is kept as the      *)
(* fraction over bins.  The argument weights is the scalar 1 or one weight *)
(* per sample: [scalar |-> TRUE, w |-> ws] with ws the 1 given to every     *)
(* sample, or [scalar |-> FALSE, w |-> ws].                                *)
(***************************************************************************)
MaxBins == 3
MaxWeight == 2

\* h.edges[axis]: np.linspace(low, high, bins + 1), edge k of 0..bins.
Edges(blh) ==
    [k \in 1..(blh.bins + 1) |->
        [num |-> blh.low * blh.bins + (k - 1) * (blh.high - blh.low),
         den |-> blh.bins]]

\* The 0-based bin of a sample with the upper edge left out: the width of a
\* bin is (high - low) / bins; -1 for a sample in no bin.
FillBinHalfOpen(blh, v) ==
    IF v < blh.low \/ v >= blh.high THEN 0 - 1
    ELSE ((v - blh.low) * blh.bins) \div (blh.high - blh.low)
\* Histogram.fill: the 0-based bin of a sample, the last one for a sample at
\* high; -1 for a sample outside [low, high].
FillBin(blh, v) ==
    IF v < blh.low \/ v > blh.high THEN 0 - 1
    ELSE IF v = blh.high THEN blh.bins - 1
    ELSE ((v - blh.low) * blh.bins) \div (blh.high - blh.low)

\* The weight of sample i.
WeightOf(weights, i) == weights.w[i]

\* The sum of the weights of the samples of I.
RECURSIVE SumWeights(_, _)
SumWeights(weights, I) ==
    IF I = {} THEN 0
    ELSE LET i == CHOOSE j \in I : TRUE
         IN  WeightOf(weights, i) + SumWeights(weights, I \ {i})

\* Histogram(binlowhigh).fill(x, weights=weights): h.values in one dimension.
Fill1d(blh, x, weights) ==
    [b \in 1..blh.bins |->
        SumWeights(weights, {i \in 1..Len(x) : FillBin(blh, x[i]) = b - 1})]

\* Histogram(xblh, yblh).fill(x, y, weights=weights): h.values in two
\* dimensions, a row per bin of x.
Fill2d(xblh, yblh, x, y, weights) ==
    [bx \in 1..xblh.bins |-> [by \in 1..yblh.bins |->
        SumWeights(weights, {i \in 1..Len(x) :
            FillBin(xblh, x[i]) = bx - 1 /\ FillBin(yblh, y[i]) = by - 1})]]

\* numpy: a sample v is in bin b (1-based) of the edges: edges[b] <= v <
\* edges[b + 1], and v <= edges[b + 1] in the last bin.
InNumpyBin(edges, b, v) ==
    /\ edges[b].num <= v * edges[b].den
    /\ IF b = Len(edges) - 1
       THEN v * edges[b + 1].den <= edges[b + 1].num
       ELSE v * edges[b + 1].den < edges[b + 1].num

\* np.histogram(x, edges, weights=weights)[0].
NpHistogram(x, edges, weights) ==
    [b \in 1..(Len(edges) - 1) |->
        SumWeights(weights, {i \in 1..Len(x) : InNumpyBin(edges, b, x[i])})]

\* np.histogram2d(x, y, bins=[xedges, yedges], weights=weights)[0].
NpHistogram2d(x, y, xedges, yedges, weights) ==
    [bx \in 1..(Len(xedges) - 1) |-> [by \in 1..(Len(yedges) - 1) |->
        SumWeights(weights, {i \in 1..Len(x) :
            InNumpyBin(xedges, bx, x[i]) /\ InNumpyBin(yedges, by, y[i])})]]

\* test_histogram.py 12-15, 42-45: the weights numpy is given: none (every
\* sample counts 1) for a scalar.
ReferenceWeights(weights) ==
    IF weights.scalar THEN [scalar |-> TRUE, w |-> [i \in DOMAIN weights.w |-> 1]]
    ELSE weights

\* test_histogram.py 9-17: the histogram filled and the reference.
_1d_histogram_tester(blh, x, weights) ==
    [exc |-> "none",
     edges |-> <<Edges(blh)>>,
     values |-> Fill1d(blh, x, weights),
     ynp |-> NpHistogram(x, Edges(blh), ReferenceWeights(weights))]

\* test_histogram.py 39-47.
_2d_histogram_tester(xblh, yblh, x, y, weights) ==
    [exc |-> "none",
     edges |-> <<Edges(xblh), Edges(yblh)>>,
     values |-> Fill2d(xblh, yblh, x, y, weights),
     ynp |-> NpHistogram2d(x, y, Edges(xblh), Edges(yblh), ReferenceWeights(weights))]

\* The arguments: up to MaxBins bins over [0, 2], [0, 3] or [1, 3] (a second
\* axis has one of two of these), up to two samples from one below the lowest
\* low to one above the highest high, and the weight 1 or one weight in
\* 1..MaxWeight per sample.
BinLowHighs == [bins : 1..MaxBins, low : {0, 1}, high : {2, 3}] \ 
               [bins : 1..MaxBins, low : {1}, high : {2}]
SecondBinLowHighs == {[bins |-> 1, low |-> 0, high |-> 2],
                      [bins |-> 2, low |-> 0, high |-> 3]}
SampleValues == (0 - 1)..4
SampleCounts == {0, 1, 2}
WeightsFor(n) ==
    {[scalar |-> TRUE, w |-> [i \in 1..n |-> 1]]}
      \cup {[scalar |-> FALSE, w |-> ws] : ws \in [1..n -> 1..MaxWeight]}

InitHistogram ==
    /\ pc = "ready"
    /\ call = NoCall
    /\ ret = NoRet
    /\ loop = NoLoop
    /\ param_hints = NoDict
    /\ fs = NoFiles
    /\ im = NoImage
    /\ xrf_parameter = NoDict
    /\ heap = NoDict

Call1dHistogramTester ==
    /\ pc = "ready"
    /\ \E blh \in BinLowHighs, n \in SampleCounts :
         \E x \in [1..n -> SampleValues], weights \in WeightsFor(n) :
           /\ call' = [fn |-> "_1d_histogram_tester", binlowhighs |-> <<blh>>,
                       x |-> x, weights |-> weights]
           /\ ret' = _1d_histogram_tester(blh, x, weights)
    /\ pc' = "done"
    /\ UNCHANGED <<fs, im, xrf_parameter, heap, loop, param_hints>>

Call2dHistogramTester ==
    /\ pc = "ready"
    /\ \E xblh \in BinLowHighs, yblh \in SecondBinLowHighs, n \in SampleCounts :
         \E x \in [1..n -> SampleValues], y \in [1..n -> SampleValues],
            weights \in WeightsFor(n) :
           /\ call' = [fn |-> "_2d_histogram_tester", binlowhighs |-> <<xblh, yblh>>,
                       x |-> x, y |-> y, weights |-> weights]
           /\ ret' = _2d_histogram_tester(xblh, yblh, x, y, weights)
    /\ pc' = "done"
    /\ UNCHANGED <<fs, im, xrf_parameter, heap, loop, param_hints>>

NextHistogram == Call1dHistogramTester \/ Call2dHistogramTester

SpecHistogram == InitHistogram /\ [][NextHistogram]_vars

HistogramDone ==
    pc = "done" /\ call.fn \in {"_1d_histogram_tester", "_2d_histogram_tester"}

\* Sample i of the call lies outside [low, high] on some axis.
C21_Outside(i) ==
    \/ call.x[i] < call.binlowhighs[1].low \/ call.x[i] > call.binlowhighs[1].high
    \/ /\ call.fn = "_2d_histogram_tester"
       /\ \/ call.y[i] < call.binlowhighs[2].low
          \/ call.y[i] > call.binlowhighs[2].high

\* The sum of all bins of a 1-D or 2-D array of values.
C21_Total(values) ==
    IF call.fn = "_1d_histogram_tester" THEN SumSeq(values)
    ELSE SumSeq([b \in 1..Len(values) |-> SumSeq(values[b])])

====
